---- MODULE Spec2Model ----
(***************************************************************************)
(* Interfolio activity synchronisation (interfolio_data_sync):             *)
(*   InterfolioAPI._make_request and the feed getters,                     *)
(*   ActivityTracker, delete_stale_activities,                             *)
(*   ActivityCollector.process_user / delete_stale_data /                  *)
(*   collect_activities.                                                   *)
(*                                                                         *)
(* The relational store is modelled at the level the code drives it        *)
(* through a SQLAlchemy session (autoflush on, one transaction per         *)
(* session): session.add and session.merge of an object whose primary key  *)
(* `id` is unset both stage a new row; the row is INSERTed by the next     *)
(* query's autoflush or by commit; the UNIQUE constraint on activityid is  *)
(* enforced by the database at that INSERT, which waits while another      *)
(* open transaction holds an uncommitted row with the same activityid.     *)
(***************************************************************************)
EXTENDS Integers, Sequences, FiniteSets, TLC

\* ------------------------------------------------------------------ bounds
NumUsers == 2
MaxId == 2
MaxFeedLen == 2
MaxWorkers == 2
MaxRows == 1
MaxStaleId == 3
MaxBatch == 1
MaxTextLen == 2
MaxSrcLen == 21
MaxLongFeedLen == 3

\* ------------------------------------------------------- program constants
max_retries == 3

\* The environment variables InterfolioAPI.__init__ reads.
Credentials == {"API_PUBLIC_KEY", "API_PRIVATE_KEY", "TENANT_1_DATABASE_ID"}

\* An environment that provides every credential.
FullEnv == [c \in Credentials |-> TRUE]

Subjects == 1..NumUsers
Kinds == {"publications", "grants"}

VARIABLES
    mainPc,        \* position of collect_activities
    userIds,       \* user_ids: the eligible users in query order, then the batch
    maxWorkers,    \* --workers
    task,          \* per submitted process_user call: its locals and session
    store,         \* committed rows of the publications and grants tables
    tracker,       \* ActivityTracker
    stats,         \* ActivityCollector.stats
    unconfirmed,   \* history: per kind, ids of rows whose owner's fetch gave None
    storeAtStale,  \* history: the store when delete_stale_data was entered
    staleCalls,    \* history: number of calls of delete_stale_data
    staleOutcome,  \* history: how delete_stale_data ended
    req,           \* one call of a feed getter, taken on its own
    pass,          \* successive runs of the script against one remote feed
    unlocked,      \* history: shared objects a worker wrote outside stats_lock
    batchSize,     \* --batch: 0 stands for None
    calls,         \* history: per subject, the number of process_user calls begun
    env,           \* which credentials the environment (.env) provides
    norm,          \* one call of a normalizer, taken on its own
    staleFailedIn, \* history: where delete_stale_data hit its exception
    signing,       \* two calls of _make_request by one client, up to the headers
    listed         \* history: user_ids as get_user_ids returned it

vars == <<mainPc, userIds, maxWorkers, task, store, tracker, stats,
          unconfirmed, storeAtStale, staleCalls, staleOutcome, req, pass,
          unlocked, batchSize, calls, env, norm, staleFailedIn, signing,
          listed>>

\* ------------------------------------------------------------ _make_request
\* Line 53.
api_host == "https://faculty180.interfolio.com/api.php"

\* _build_message
BuildMessage(method, timestamp, request_string) ==
    method \o "\n\n\n" \o timestamp \o "\n" \o request_string

\* _generate_signature: the base64 text of the HMAC-SHA1 digest of the
\* message under the secret, taken as free of collisions.
GenerateSignature(api_secret, message) ==
    [digest |-> "base64(hmac-sha1)", key |-> api_secret, message |-> message]

\* _build_auth_header: "INTF <api_key>:<signature>".
BuildAuthHeader(api_key, signature) ==
    [scheme |-> "INTF", api_key |-> api_key, signature |-> signature]

\* Variant: the query string is signed with the endpoint.
RequestStringWithQuery(endpoint, query_params) == endpoint \o query_params

\* Line 75: the request string handed to _build_message is the endpoint.
RequestString(endpoint, query_params) == endpoint

\* Lines 71-84: the url and the headers of a request.
PrepareRequest(api, endpoint, query_params, timestamp) ==
    LET message == BuildMessage("GET", timestamp,
                                RequestString(endpoint, query_params))
        signature == GenerateSignature(api.api_secret, message)
        auth_header == BuildAuthHeader(api.api_key, signature)
    IN [url |-> api_host \o endpoint \o query_params,
        message |-> message,
        signature |-> signature,
        headers |-> [TimeStamp |-> timestamp,
                     Authorization |-> auth_header,
                     DatabaseID |-> api.database_id]]

\* Nothing was prepared yet.
NoPrepared == PrepareRequest([api_key |-> "", api_secret |-> "", database_id |-> ""],
                             "", "", "")

\* No signing is under observation.
NoSigning ==
    [api |-> [api_key |-> "", api_secret |-> "", database_id |-> ""],
     calls |-> <<>>]

\* What one HTTP attempt can bring.
Outcomes == {"r429", "timeout", "exception", "http_error", "html", "bad_json", "json"}

\* Shapes of a parsed JSON body, as the getters tell them apart.
Shapes == {"feed_list", "not_dict", "no_key", "not_list", "empty_dict"}

NoBody == [shape |-> "not_dict", acts |-> <<>>]

ReturnNone(attempts, sleeps) ==
    [status |-> "None", body |-> NoBody, attempts |-> attempts, sleeps |-> sleeps]

ReturnJson(body, attempts, sleeps) ==
    [status |-> "json", body |-> body, attempts |-> attempts, sleeps |-> sleeps]

\* The retry loop: `attempt` is the loop index (0-based), outs[attempt + 1]
\* what requests.get / raise_for_status / response.json do on that attempt.
RECURSIVE RetryLoop(_, _, _, _)
RetryLoop(outs, body, attempt, sleeps) ==
    IF attempt >= max_retries
    THEN ReturnNone(attempt, sleeps)
    ELSE LET o == outs[attempt + 1] IN
         CASE o = "r429" ->
                RetryLoop(outs, body, attempt + 1, Append(sleeps, (attempt + 1) * 2))
           [] o = "html" -> ReturnNone(attempt + 1, sleeps)
           [] o = "json" -> ReturnJson(body, attempt + 1, sleeps)
           [] o = "timeout" ->
                IF attempt < max_retries - 1
                THEN RetryLoop(outs, body, attempt + 1, Append(sleeps, 2))
                ELSE ReturnNone(attempt + 1, sleeps)
           [] OTHER ->  \* except Exception: transport, HTTP status, bad JSON
                IF attempt < max_retries - 1
                THEN RetryLoop(outs, body, attempt + 1, Append(sleeps, 1))
                ELSE ReturnNone(attempt + 1, sleeps)

\* Variant: the 429 wait does not grow with the attempt (wait_time = 2).
RECURSIVE RetryLoopFlatWait(_, _, _, _)
RetryLoopFlatWait(outs, body, attempt, sleeps) ==
    IF attempt >= max_retries
    THEN ReturnNone(attempt, sleeps)
    ELSE LET o == outs[attempt + 1] IN
         CASE o = "r429" ->
                RetryLoopFlatWait(outs, body, attempt + 1, Append(sleeps, 2))
           [] o = "html" -> ReturnNone(attempt + 1, sleeps)
           [] o = "json" -> ReturnJson(body, attempt + 1, sleeps)
           [] o = "timeout" ->
                IF attempt < max_retries - 1
                THEN RetryLoopFlatWait(outs, body, attempt + 1, Append(sleeps, 2))
                ELSE ReturnNone(attempt + 1, sleeps)
           [] OTHER ->
                IF attempt < max_retries - 1
                THEN RetryLoopFlatWait(outs, body, attempt + 1, Append(sleeps, 1))
                ELSE ReturnNone(attempt + 1, sleeps)

MakeRequestFlatWait(outs, body) == RetryLoopFlatWait(outs, body, 0, <<>>)

\* Variant: the last handler catches transport errors only, so that an
\* unparsable body (ValueError from response.json) leaves the function.
RECURSIVE RetryLoopNarrowExcept(_, _, _, _)
RetryLoopNarrowExcept(outs, body, attempt, sleeps) ==
    IF attempt >= max_retries
    THEN ReturnNone(attempt, sleeps)
    ELSE LET o == outs[attempt + 1] IN
         CASE o = "r429" ->
                RetryLoopNarrowExcept(outs, body, attempt + 1,
                                      Append(sleeps, (attempt + 1) * 2))
           [] o = "html" -> ReturnNone(attempt + 1, sleeps)
           [] o = "json" -> ReturnJson(body, attempt + 1, sleeps)
           [] o = "timeout" ->
                IF attempt < max_retries - 1
                THEN RetryLoopNarrowExcept(outs, body, attempt + 1, Append(sleeps, 2))
                ELSE ReturnNone(attempt + 1, sleeps)
           [] o = "bad_json" ->
                [status |-> "raised", body |-> NoBody,
                 attempts |-> attempt + 1, sleeps |-> sleeps]
           [] OTHER ->
                IF attempt < max_retries - 1
                THEN RetryLoopNarrowExcept(outs, body, attempt + 1, Append(sleeps, 1))
                ELSE ReturnNone(attempt + 1, sleeps)

MakeRequestNarrowExcept(outs, body) == RetryLoopNarrowExcept(outs, body, 0, <<>>)

MakeRequest(outs, body) == RetryLoop(outs, body, 0, <<>>)

\* get_user_publications / get_user_grants on the response of _make_request.
GetUserActivities(response) ==
    IF response.status # "json" THEN <<>>
    ELSE IF response.body.shape # "feed_list" THEN <<>>
    ELSE response.body.acts

\* No getter call is under observation.
NoRequest ==
    [pc |-> "none", answers |-> <<>>, outs |-> <<>>, body |-> NoBody,
     response |-> ReturnNone(0, <<>>), activities |-> <<>>]

\* response.text by the classes of its characters: " " whitespace, "<" the
\* start of markup, "{" the start of a JSON document.
Chars == {" ", "<", "{"}

Texts == UNION {[1..n -> Chars] : n \in 0..MaxTextLen}

\* str.strip(): leading and trailing whitespace removed.
RECURSIVE LStrip(_)
LStrip(text) ==
    IF text # <<>> /\ Head(text) = " " THEN LStrip(Tail(text)) ELSE text

RECURSIVE RStrip(_)
RStrip(text) ==
    IF text # <<>> /\ text[Len(text)] = " "
    THEN RStrip(SubSeq(text, 1, Len(text) - 1)) ELSE text

Strip(text) == RStrip(LStrip(text))

\* str.startswith(ch)
StartsWith(text, ch) == text # <<>> /\ Head(text) = ch

\* Variant: the body is tested as it comes, response.text.startswith("<").
Classify200NoStrip(text) ==
    IF StartsWith(text, "<") THEN "html"
    ELSE IF StartsWith(LStrip(text), "{") THEN "json"
    ELSE "bad_json"

\* Lines 98-102 on a 200 response: markup after strip() returns None at
\* once; otherwise response.json(), which skips leading whitespace and
\* raises ValueError on what is no JSON document.
Classify200(text) ==
    IF StartsWith(Strip(text), "<") THEN "html"
    ELSE IF StartsWith(LStrip(text), "{") THEN "json"
    ELSE "bad_json"

\* What the server may answer to one attempt: a status 429, no answer in
\* time, a transport error, an error status (with or without a markup
\* body), or a status 200 with any text.
Answers ==
    [kind : {"r429", "timeout", "exception"}, text : {<<>>}]
        \cup [kind : {"http_error"}, text : {<<>>, <<"<">>}]
        \cup [kind : {"ok"}, text : Texts]

\* Lines 89-112: the branch of the loop body an answer leads to.
Outcome(answer) ==
    IF answer.kind = "ok" THEN Classify200(answer.text) ELSE answer.kind

\* ------------------------------------------------------------------- rows
\* A mapped row; `title` stands for every mapped column other than the keys.
Row(a, u, t) == [activityid |-> a, user_id |-> u, title |-> t]

\* Python's None for an entity.
NoEntity == Row(0, 0, "None")

\* Raw activities of the two feeds, by what the normalizers look at; status
\* tells whether activity_data["status"] holds mappings.
PubActs ==
    [activityid : 1..MaxId, Type : {"Journal Article"}, status : {"mapping"}]
        \cup [activityid : {1}, Type : {"Poster"}, status : {"mapping"}]
GrantActs ==
    [activityid : 1..MaxId, GrantID : {"G1"}, status : {"mapping"}]
        \cup [activityid : {1}, GrantID : {""}, status : {"mapping"}]

\* Activities whose status is a list of values that are no mappings.
MalformedPubActs ==
    [activityid : 1..MaxId, Type : {"Journal Article"}, status : {"not_mapping"}]
MalformedGrantActs ==
    [activityid : 1..MaxId, GrantID : {"G1"}, status : {"not_mapping"}]

\* A key the mapping does not hold, and Python's None.
Absent == "absent"
None == "None"

\* dict.get(key, default) on the value found under the key.
DictGet(value, default) == IF value = Absent THEN default ELSE value

\* Python's truth test on a string or None.
Falsy(value) == value \in {"", None}

\* Activities with every kind of discriminator: types other than the two
\* accepted ones, in another case, or absent; a grant id empty or absent.
FilterPubActs ==
    [activityid : 1..MaxId,
     Type : {"Journal Article", "Book", "Poster", "journal article", Absent},
     status : {"mapping"}]
FilterGrantActs ==
    [activityid : 1..MaxId, GrantID : {"G1", "", Absent}, status : {"mapping"}]

\* Variant: the type is compared without regard to case.
PublicationCoercionAnyCase(activity_data) ==
    IF DictGet(activity_data.Type, "")
          \notin {"Journal Article", "Book", "journal article"} THEN "rejected"
    ELSE IF activity_data.status # "mapping" THEN "raises"
    ELSE "ok"

\* What happens inside the normalizer's try block: the discriminator test
\* returns None ("rejected"), status_info.get raises on a value that is no
\* mapping ("raises"), or the entity is built ("ok").
PublicationCoercion(activity_data) ==
    IF DictGet(activity_data.Type, "") \notin {"Journal Article", "Book"}
    THEN "rejected"
    ELSE IF activity_data.status # "mapping" THEN "raises"
    ELSE "ok"

\* Variant: only an empty grant id is turned down, an absent one is not.
GrantCoercionEmptyOnly(activity_data) ==
    IF activity_data.GrantID = "" THEN "rejected"
    ELSE IF activity_data.status # "mapping" THEN "raises"
    ELSE "ok"

GrantCoercion(activity_data) ==
    IF Falsy(DictGet(activity_data.GrantID, None)) THEN "rejected"
    ELSE IF activity_data.status # "mapping" THEN "raises"
    ELSE "ok"

\* create_publication_from_api: None unless Type is Journal Article or Book;
\* except Exception: log and return None.
CreatePublicationFromApi(activity_data, user_id) ==
    IF PublicationCoercion(activity_data) = "ok"
    THEN Row(activity_data.activityid, user_id, "api")
    ELSE NoEntity

\* create_grant_from_api: None unless a Grant ID / Contract ID is present;
\* except Exception: log and return None.
CreateGrantFromApi(activity_data, user_id) ==
    IF GrantCoercion(activity_data) = "ok"
    THEN Row(activity_data.activityid, user_id, "api")
    ELSE NoEntity

\* ------------------------------------------- the normalizers, field by field
\* A value of the parsed payload: None, a string (its characters), a
\* non-negative integer, a list, or a dict as its items in insertion order.
PyNone == [t |-> "none"]
PyStr(s) == [t |-> "str", v |-> s]
PyInt(n) == [t |-> "int", v |-> n]
PyList(s) == [t |-> "list", v |-> s]
PyDict(items) == [t |-> "dict", v |-> items]
EmptyDict == PyDict(<<>>)

\* Python's truth test.
IsTrue(value) ==
    CASE value.t = "none" -> FALSE
      [] value.t = "int" -> value.v # 0
      [] OTHER -> value.v # <<>>

\* a or b
Or(a, b) == IF IsTrue(a) THEN a ELSE b

\* d.get(key, default)
Get(d, key, default) ==
    LET hits == {i \in 1..Len(d.v) : d.v[i][1] = key}
    IN IF hits = {} THEN default ELSE d.v[CHOOSE i \in hits : TRUE][2]

\* key in d
Has(d, key) == \E i \in 1..Len(d.v) : d.v[i][1] = key

\* list(d.values())
Values(d) == [i \in 1..Len(d.v) |-> d.v[i][2]]

RECURSIVE Digits(_)
Digits(n) ==
    LET digit == <<"0", "1", "2", "3", "4", "5", "6", "7", "8", "9">>[(n % 10) + 1]
    IN IF n < 10 THEN <<digit>> ELSE Append(Digits(n \div 10), digit)

\* str(value) of None, a string or an integer.
Str(value) ==
    CASE value.t = "none" -> PyStr(<<"N", "o", "n", "e">>)
      [] value.t = "int" -> PyStr(Digits(value.v))
      [] OTHER -> value

\* Variant: the last max_length characters are kept, str_value[-max_length:].
truncate_field_tail(value, max_length) ==
    IF value = PyNone THEN PyNone
    ELSE LET str_value == IF value.t # "str" THEN Str(value) ELSE value
         IN IF Len(str_value.v) > max_length
            THEN PyStr(SubSeq(str_value.v, Len(str_value.v) - max_length + 1,
                              Len(str_value.v)))
            ELSE str_value

\* truncate_field
truncate_field(value, max_length) ==
    IF value = PyNone THEN PyNone
    ELSE LET str_value == IF value.t # "str" THEN Str(value) ELSE value
         IN IF Len(str_value.v) > max_length
            THEN PyStr(SubSeq(str_value.v, 1, max_length))
            ELSE str_value

\* The two accepted publication types.
JournalArticle ==
    PyStr(<<"J", "o", "u", "r", "n", "a", "l", " ",
            "A", "r", "t", "i", "c", "l", "e">>)
Book == PyStr(<<"B", "o", "o", "k">>)

\* Variant: the last element of the list is taken, status[-1].
StatusInfoLast(activity_data) ==
    LET status == Get(activity_data, "status", PyNone)
    IN IF ~IsTrue(status) THEN EmptyDict
       ELSE IF status.t = "list" /\ Len(status.v) > 0 THEN status.v[Len(status.v)]
       ELSE IF status.t = "dict" THEN status
       ELSE EmptyDict

\* Lines 129-138 and 210-219: the first element of a non-empty list, the
\* dict itself, the empty dict otherwise.
StatusInfo(activity_data) ==
    LET status == Get(activity_data, "status", PyNone)
    IN IF ~IsTrue(status) THEN EmptyDict
       ELSE IF status.t = "list" /\ Len(status.v) > 0 THEN status.v[1]
       ELSE IF status.t = "dict" THEN status
       ELSE EmptyDict

\* status_info.get(...) raises AttributeError on a true value that is no dict.
StatusRaises(status_info) == IsTrue(status_info) /\ status_info.t # "dict"

\* status_info.get(key) if status_info else None
StatusGet(status_info, key) ==
    IF IsTrue(status_info) THEN Get(status_info, key, PyNone) ELSE PyNone

\* str(status_info.get("year")) if status_info and status_info.get("year")
\* else None
StatusYear(status_info) ==
    IF IsTrue(status_info) /\ IsTrue(Get(status_info, "year", PyNone))
    THEN Str(Get(status_info, "year", PyNone))
    ELSE PyNone

\* Lines 141-143: a true year becomes the first four characters of its text.
Year(fields) ==
    LET year == Get(fields, "Year", PyNone)
    IN IF IsTrue(year)
       THEN IF Len(Str(year).v) >= 4 THEN PyStr(SubSeq(Str(year).v, 1, 4))
            ELSE Str(year)
       ELSE year

\* create_publication_from_api with the columns type, isbn, year, status,
\* term and status_year; the other columns are built as isbn is.  An
\* exception in the try block gives None.
create_publication_from_api(activity_data, user_id) ==
    LET fields == Get(activity_data, "fields", EmptyDict)
        activity_type == Get(fields, "Type", PyStr(<<>>))
        status_info == StatusInfo(activity_data)
    IN IF activity_type \notin {JournalArticle, Book} THEN PyNone
       ELSE IF StatusRaises(status_info) THEN PyNone
       ELSE [user_id |-> user_id,
             activityid |-> Get(activity_data, "activityid", PyNone),
             type |-> truncate_field(activity_type, 50),
             isbn |-> truncate_field(Get(fields, "ISBN", PyNone), 20),
             year |-> truncate_field(Year(fields), 4),
             status |-> truncate_field(StatusGet(status_info, "status"), 50),
             term |-> truncate_field(StatusGet(status_info, "term"), 50),
             status_year |-> truncate_field(StatusYear(status_info), 4)]

\* Lines 221-233: the entry under the activity's own id, else the first
\* value if that is a dict, else the empty dict.
FundingInfo(activity_data) ==
    LET funding == Get(activity_data, "funding", PyNone)
    IN IF IsTrue(funding) /\ funding.t = "dict"
       THEN LET activity_id == Str(Get(activity_data, "activityid", PyNone)).v
                funding_values == Values(funding)
            IN IF Has(funding, activity_id)
               THEN Get(funding, activity_id, PyNone)
               ELSE IF funding_values # <<>> /\ funding_values[1].t = "dict"
               THEN funding_values[1]
               ELSE EmptyDict
       ELSE EmptyDict

\* Variant: the top-level Total Funding field is looked at first.
TotalFundingFieldFirst(funding_info, fields) ==
    Or(Or(Get(fields, "Total Funding", PyNone),
          Get(funding_info, "fundedamount", PyNone)),
       Get(fields, "Amount", PyNone))

\* Lines 236-240: the first true value of the three.
TotalFunding(funding_info, fields) ==
    Or(Or(Get(funding_info, "fundedamount", PyNone),
          Get(fields, "Total Funding", PyNone)),
       Get(fields, "Amount", PyNone))

\* create_grant_from_api with the columns grant_id, currency_type,
\* total_funding, status, term and status_year.  funding_info.get raises
\* AttributeError when funding_info is no dict; an exception gives None.
create_grant_from_api(activity_data, user_id) ==
    LET fields == Get(activity_data, "fields", EmptyDict)
        status_info == StatusInfo(activity_data)
        funding_info == FundingInfo(activity_data)
    IN IF ~IsTrue(Get(fields, "Grant ID / Contract ID", PyNone)) THEN PyNone
       ELSE IF funding_info.t # "dict" THEN PyNone
       ELSE IF StatusRaises(status_info) THEN PyNone
       ELSE LET total_funding == TotalFunding(funding_info, fields)
            IN [user_id |-> user_id,
                activityid |-> Get(activity_data, "activityid", PyNone),
                grant_id |-> truncate_field(
                    Get(fields, "Grant ID / Contract ID", PyNone), 100),
                currency_type |-> truncate_field(
                    Get(fields, "Currency Type", PyNone), 10),
                total_funding |-> truncate_field(
                    IF IsTrue(total_funding) THEN Str(total_funding) ELSE PyNone,
                    50),
                status |-> truncate_field(StatusGet(status_info, "status"), 50),
                term |-> truncate_field(StatusGet(status_info, "term"), 50),
                status_year |-> truncate_field(StatusYear(status_info), 4)]

\* No normalizer call is under observation.
NoCall ==
    [pc |-> "none", kind |-> "publications", activity_data |-> EmptyDict,
     entity |-> PyNone]

\* ---------------------------------------------------------- ActivityTracker
EmptyTracker ==
    [seen_users |-> {}, seen_publications |-> {}, seen_grants |-> {}]

\* Variant: the user id is recorded among the seen publications as well.
TrackUserInPublications(t, user_id) ==
    IF user_id # 0
    THEN [t EXCEPT !.seen_users = @ \cup {user_id},
                   !.seen_publications = @ \cup {user_id}]
    ELSE t

TrackUser(t, user_id) ==
    IF user_id # 0 THEN [t EXCEPT !.seen_users = @ \cup {user_id}] ELSE t

\* Variant: the `if activity_id:` test is missing.
TrackPublicationAnyId(t, activity_id) ==
    [t EXCEPT !.seen_publications = @ \cup {activity_id}]

TrackPublication(t, activity_id) ==
    IF activity_id # 0
    THEN [t EXCEPT !.seen_publications = @ \cup {activity_id}] ELSE t

TrackGrant(t, activity_id) ==
    IF activity_id # 0
    THEN [t EXCEPT !.seen_grants = @ \cup {activity_id}] ELSE t

Track(t, kind, activity_id) ==
    IF kind = "publications" THEN TrackPublication(t, activity_id)
    ELSE TrackGrant(t, activity_id)

\* ------------------------------------------------- delete_stale_activities
\* Variant: the `record_id and` test is missing.
StaleRowsAnyId(rows, seen_ids) == {r \in rows : r.activityid \notin seen_ids}

\* The rows session.delete is called on; deleted_count is their number.
StaleRows(rows, seen_ids) ==
    {r \in rows : r.activityid # 0 /\ r.activityid \notin seen_ids}

DeleteStaleActivities(rows, seen_ids) ==
    [rows |-> StaleRows(rows, seen_ids),
     deleted_count |-> Cardinality(StaleRows(rows, seen_ids))]

\* ------------------------------------------------------------------- stats
ZeroStats ==
    [users_processed |-> 0, users_with_publications |-> 0, users_with_grants |-> 0,
     publications_added |-> 0, publications_updated |-> 0, publications_deleted |-> 0,
     grants_added |-> 0, grants_updated |-> 0, grants_deleted |-> 0,
     duplicates_skipped |-> 0, parse_errors |-> 0, db_errors |-> 0]

\* ------------------------------------------------- process_user: its locals
\* staged: objects session.add / session.merge made pending, as <<kind, row>>;
\* flushed: rows this session INSERTed and has not committed;
\* active: FALSE once a flush failed and session.rollback() was not called.
NewTask(pc) ==
    [pc |-> pc, publications |-> <<>>, grants |-> <<>>,
     staged |-> {}, flushed |-> {}, active |-> TRUE,
     publications_added |-> 0, publications_updated |-> 0,
     grants_added |-> 0, grants_updated |-> 0, duplicates |-> 0,
     upserts |-> {}, session |-> "none"]

\* Line 174: session = self.session_factory(), the call's own session.
OpenSession(t) == [t EXCEPT !.session = "open"]

\* Variant: the finally block is missing.
SessionLeftOpen(t) == t

\* Lines 309-310: finally: session.close().
SessionClose(t) == [t EXCEPT !.session = "closed"]

\* A call of process_user that has returned: its locals are gone and the
\* finally block has run.
Returned == SessionClose(OpenSession(NewTask("done")))

Running(u) == task[u].pc \in {"loop", "stats"}

\* Rows of `kind` a query of u's session sees: committed ones and its own.
Visible(u, kind) ==
    store[kind] \cup {p[2] : p \in {q \in task[u].flushed : q[1] = kind}}

HasId(rows, a) == \E r \in rows : r.activityid = a

\* The INSERT of a staged row breaks UNIQUE(activityid).
Violates(u) ==
    \E p \in task[u].staged : HasId(Visible(u, p[1]), p[2].activityid)

\* The INSERT of a staged row of u waits for v's open transaction.
WaitsOn(u, v) ==
    /\ v # u
    /\ \E p \in task[u].staged, q \in task[v].flushed :
          p[1] = q[1] /\ p[2].activityid = q[2].activityid


\* ---------------------------------------------------------------- the lock
\* A mutation of state shared by the workers, and whether the statement sits
\* inside a `with self.stats_lock:` block.
Write(obj, held) == [obj |-> obj, held |-> held]

\* Shared objects among `writes` that are mutated without the lock.
Unheld(writes) == {w.obj : w \in {x \in writes : ~x.held}}

\* ------------------------------------------------------------ process_user
\* Feeds the remote API may hold for one subject: <<publications, grants>>.
SeqsUpTo(S, n) == UNION {[1..k -> S] : k \in 0..n}

SubjectFeeds ==
    {f \in SeqsUpTo(PubActs, MaxFeedLen) \X SeqsUpTo(GrantActs, MaxFeedLen) :
        Len(f[1]) + Len(f[2]) <= MaxFeedLen}

\* Feeds in which malformed activities occur among well-formed ones.
MalformedFeeds ==
    {f \in SeqsUpTo(PubActs \cup MalformedPubActs, MaxFeedLen)
            \X SeqsUpTo(GrantActs \cup MalformedGrantActs, MaxFeedLen) :
        Len(f[1]) + Len(f[2]) <= MaxFeedLen}

\* Feeds of activities with every kind of discriminator.
FilterFeeds ==
    {f \in SeqsUpTo(FilterPubActs, MaxFeedLen)
            \X SeqsUpTo(FilterGrantActs, MaxFeedLen) :
        Len(f[1]) + Len(f[2]) <= MaxFeedLen}

\* Feeds long enough for a loop to fail after it has flushed earlier rows.
LongFeeds ==
    {f \in SeqsUpTo(PubActs, MaxLongFeedLen) \X SeqsUpTo(GrantActs, MaxLongFeedLen) :
        Len(f[1]) + Len(f[2]) <= MaxLongFeedLen}

\* Per-attempt outcomes of one request, as drawn for a subject's fetch.
FetchScenarios ==
    {<<"r429", "json", "json">>, <<"timeout", "timeout", "timeout">>}

\* When the script is run again against an unchanged feed, the feed of a
\* subject is what it was, and no request fails for good.
FeedsOf(u) ==
    IF pass.remote[u].known THEN {pass.remote[u].feed}
    ELSE IF pass.mode = "malformed" THEN MalformedFeeds
    ELSE IF pass.mode = "filter" THEN FilterFeeds
    ELSE IF pass.mode = "long" THEN LongFeeds
    ELSE SubjectFeeds

ScenariosOf(u) ==
    IF pass.mode = "single" THEN FetchScenarios ELSE {<<"r429", "json", "json">>}

Truthy(ent) == ent # NoEntity /\ ent.activityid # 0

CurKind(u) == IF task[u].publications # <<>> THEN "publications" ELSE "grants"

CurEntity(u) ==
    IF task[u].publications # <<>>
    THEN CreatePublicationFromApi(Head(task[u].publications), u)
    ELSE IF task[u].grants # <<>>
    THEN CreateGrantFromApi(Head(task[u].grants), u)
    ELSE NoEntity

Pop(t, kind) ==
    IF kind = "publications"
    THEN [t EXCEPT !.publications = Tail(@)]
    ELSE [t EXCEPT !.grants = Tail(@)]

AtCommit(u) ==
    task[u].pc = "loop" /\ task[u].publications = <<>> /\ task[u].grants = <<>>

\* u's next statement flushes its staged rows (a query's autoflush, or commit).
AtFlush(u) ==
    /\ task[u].pc = "loop"
    /\ task[u].active
    /\ task[u].staged # {}
    /\ (AtCommit(u) \/ Truthy(CurEntity(u)))

Waits(u, v) == AtFlush(u) /\ ~Violates(u) /\ WaitsOn(u, v)

RECURSIVE Reach(_, _)
Reach(S, n) ==
    IF n = 0 THEN S
    ELSE Reach(S \cup {v \in Subjects : \E x \in S : Waits(x, v)}, n - 1)

\* u waits, through other waiting transactions, for itself.
InCycle(u) == u \in Reach({v \in Subjects : Waits(u, v)}, NumUsers)

\* Lines 172-204: open the session, track the user, fetch both feeds.
StartUserUnbounded(u) ==
    /\ mainPc = "processing"
    /\ task[u].pc = "queued"
    /\ \A i \in 1..Len(userIds) :
          userIds[i] = u => \A j \in 1..(i - 1) : task[userIds[j]].pc # "queued"
    /\ \E f \in FeedsOf(u), op \in ScenariosOf(u), og \in ScenariosOf(u) :
          LET rp == MakeRequest(op, [shape |-> "feed_list", acts |-> f[1]])
              rg == MakeRequest(og, [shape |-> "feed_list", acts |-> f[2]])
              publications == GetUserActivities(rp)
              grants == GetUserActivities(rg)
          IN  /\ tracker' = TrackUser(tracker, u)
              /\ calls' = [calls EXCEPT ![u] = @ + 1]
              /\ unlocked' = unlocked \cup
                    Unheld({Write("tracker", FALSE), Write("stats", TRUE)})
              /\ pass' = IF pass.mode = "single" THEN pass
                         ELSE [pass EXCEPT !.remote[u] = [known |-> TRUE, feed |-> f]]
              /\ unconfirmed' = [k \in Kinds |->
                    IF (IF k = "publications" THEN rp ELSE rg).status = "None"
                    THEN unconfirmed[k] \cup
                         {r.activityid : r \in {x \in store[k] : x.user_id = u}}
                    ELSE unconfirmed[k]]
              /\ IF publications = <<>> /\ grants = <<>>
                 THEN /\ stats' = [stats EXCEPT !.users_processed = @ + 1]
                      /\ task' = [task EXCEPT ![u] = Returned]
                 ELSE /\ stats' = [stats EXCEPT
                            !.users_with_publications =
                                IF publications # <<>> THEN @ + 1 ELSE @,
                            !.users_with_grants =
                                IF grants # <<>> THEN @ + 1 ELSE @]
                      /\ task' = [task EXCEPT ![u] =
                            [OpenSession(NewTask("loop")) EXCEPT
                                  !.publications = publications,
                                                    !.grants = grants]]
    /\ UNCHANGED <<mainPc, userIds, maxWorkers, store, storeAtStale,
                   staleCalls, staleOutcome, req, batchSize, env, norm,
                   staleFailedIn, signing,
                   listed>>

\* ThreadPoolExecutor(max_workers): at most max_workers calls run at a time.
StartUser(u) ==
    /\ Cardinality({v \in Subjects : Running(v)}) < maxWorkers
    /\ StartUserUnbounded(u)

\* One iteration of a feed loop (lines 207-242 and 245-280) on entity `ent`.
Iterate(u, kind, ent) ==
    LET t == task[u]
        popped == Pop(t, kind)
    IN
    IF ~Truthy(ent)
    THEN /\ task' = [task EXCEPT ![u] = popped]
         /\ UNCHANGED <<tracker, stats, unlocked>>
    ELSE
      /\ tracker' = Track(tracker, kind, ent.activityid)
      /\ unlocked' = unlocked \cup
            Unheld({Write("tracker", FALSE)} \cup
                   (IF ~t.active THEN {Write("stats", TRUE)} ELSE {}))
      /\ IF ~t.active
         THEN \* the query raises on the invalidated session: except Exception
              /\ stats' = [stats EXCEPT !.parse_errors = @ + 1]
              /\ task' = [task EXCEPT ![u] = popped]
         ELSE IF t.staged # {} /\ Violates(u)
         THEN \* autoflush raises IntegrityError: rollback, duplicates += 1
              /\ task' = [task EXCEPT ![u] =
                    [popped EXCEPT !.staged = {}, !.flushed = {},
                                   !.duplicates = @ + 1]]
              /\ UNCHANGED stats
         ELSE /\ t.staged = {} \/ ~(\E v \in Subjects : WaitsOn(u, v))
              /\ LET fl == t.flushed \cup t.staged
                     seen == store[kind] \cup {p[2] : p \in {q \in fl : q[1] = kind}}
                     existing == HasId(seen, ent.activityid)
                     how == IF existing THEN "Updated" ELSE "Added"
                 IN task' = [task EXCEPT ![u] =
                      [popped EXCEPT
                         !.flushed = fl,
                         !.staged = {<<kind, ent>>},
                         !.publications_added =
                            IF kind = "publications" /\ ~existing THEN @ + 1 ELSE @,
                         !.publications_updated =
                            IF kind = "publications" /\ existing THEN @ + 1 ELSE @,
                         !.grants_added =
                            IF kind = "grants" /\ ~existing THEN @ + 1 ELSE @,
                         !.grants_updated =
                            IF kind = "grants" /\ existing THEN @ + 1 ELSE @,
                         !.upserts = @ \cup {<<kind, ent.activityid, how>>}]]
              /\ UNCHANGED stats

ProcessPublication(u) ==
    /\ task[u].pc = "loop"
    /\ task[u].publications # <<>>
    /\ Iterate(u, "publications",
               CreatePublicationFromApi(Head(task[u].publications), u))
    /\ UNCHANGED <<mainPc, userIds, maxWorkers, store, unconfirmed,
                   storeAtStale, staleCalls, staleOutcome, req, pass,
                   batchSize, calls, env, norm, staleFailedIn, signing,
                   listed>>

ProcessGrant(u) ==
    /\ task[u].pc = "loop"
    /\ task[u].publications = <<>>
    /\ task[u].grants # <<>>
    /\ Iterate(u, "grants", CreateGrantFromApi(Head(task[u].grants), u))
    /\ UNCHANGED <<mainPc, userIds, maxWorkers, store, unconfirmed,
                   storeAtStale, staleCalls, staleOutcome, req, pass,
                   batchSize, calls, env, norm, staleFailedIn, signing,
                   listed>>

\* The database ends a wait cycle by failing one waiting INSERT.  In a feed
\* loop the error is no IntegrityError: except Exception counts a parse
\* error and the session stays invalid; in commit it is a commit failure.
DeadlockVictim(u) ==
    /\ InCycle(u)
    /\ IF AtCommit(u)
       THEN /\ task' = [task EXCEPT ![u] = Returned]
            /\ stats' = [stats EXCEPT !.db_errors = @ + 1]
            /\ unlocked' = unlocked \cup Unheld({Write("stats", TRUE)})
            /\ UNCHANGED tracker
       ELSE /\ tracker' = Track(tracker, CurKind(u), CurEntity(u).activityid)
            /\ unlocked' = unlocked \cup
                  Unheld({Write("tracker", FALSE), Write("stats", TRUE)})
            /\ stats' = [stats EXCEPT !.parse_errors = @ + 1]
            /\ task' = [task EXCEPT ![u] =
                  [Pop(task[u], CurKind(u)) EXCEPT
                     !.staged = {}, !.flushed = {}, !.active = FALSE]]
    /\ UNCHANGED <<mainPc, userIds, maxWorkers, store, unconfirmed,
                   storeAtStale, staleCalls, staleOutcome, req, pass,
                   batchSize, calls, env, norm, staleFailedIn, signing,
                   listed>>

\* Variant: the rows flushed before a failing commit stay in the store.
CommitKeepsFlushed(u) ==
    /\ AtCommit(u)
    /\ \/ task[u].staged = {}
       \/ ~task[u].active
       \/ Violates(u)
       \/ ~(\E v \in Subjects : WaitsOn(u, v))
    /\ IF task[u].active /\ ~Violates(u)
          THEN /\ store' = [k \in Kinds |->
                    store[k] \cup {p[2] : p \in
                       {q \in task[u].flushed \cup task[u].staged : q[1] = k}}]
               /\ task' = [task EXCEPT ![u] =
                     [@ EXCEPT !.pc = "stats", !.staged = {}, !.flushed = {}]]
               /\ UNCHANGED <<stats, unlocked>>
          ELSE /\ task' = [task EXCEPT ![u] = Returned]
               /\ stats' = [stats EXCEPT !.db_errors = @ + 1]
               /\ unlocked' = unlocked \cup Unheld({Write("stats", TRUE)})
               /\ store' = [k \in Kinds |->
                    store[k] \cup {p[2] : p \in {q \in task[u].flushed : q[1] = k}}]
    /\ UNCHANGED <<mainPc, userIds, maxWorkers, tracker, unconfirmed,
                   storeAtStale, staleCalls, staleOutcome, req, pass,
                   batchSize, calls, env, norm, staleFailedIn, signing,
                   listed>>

\* Variant: a successful commit replaces the subject's persisted rows by the
\* rows of this pass (delete, then insert).
CommitReplacesOwn(u) ==
    /\ AtCommit(u)
    /\ \/ task[u].staged = {}
       \/ ~task[u].active
       \/ Violates(u)
       \/ ~(\E v \in Subjects : WaitsOn(u, v))
    /\ IF task[u].active /\ ~Violates(u)
          THEN /\ store' = [k \in Kinds |->
                    {r \in store[k] : r.user_id # u} \cup {p[2] : p \in
                       {q \in task[u].flushed \cup task[u].staged : q[1] = k}}]
               /\ task' = [task EXCEPT ![u] =
                     [@ EXCEPT !.pc = "stats", !.staged = {}, !.flushed = {}]]
               /\ UNCHANGED <<stats, unlocked>>
          ELSE /\ task' = [task EXCEPT ![u] = Returned]
               /\ stats' = [stats EXCEPT !.db_errors = @ + 1]
               /\ unlocked' = unlocked \cup Unheld({Write("stats", TRUE)})
               /\ UNCHANGED store
    /\ UNCHANGED <<mainPc, userIds, maxWorkers, tracker, unconfirmed,
                   storeAtStale, staleCalls, staleOutcome, req, pass,
                   batchSize, calls, env, norm, staleFailedIn, signing,
                   listed>>

\* Lines 282-290: session.commit(); any exception: rollback, db_errors, return.
Commit(u) ==
    /\ AtCommit(u)
    /\ \/ task[u].staged = {}
       \/ ~task[u].active
       \/ Violates(u)
       \/ ~(\E v \in Subjects : WaitsOn(u, v))
    /\ IF task[u].active /\ ~Violates(u)
          THEN /\ store' = [k \in Kinds |->
                    store[k] \cup {p[2] : p \in
                       {q \in task[u].flushed \cup task[u].staged : q[1] = k}}]
               /\ task' = [task EXCEPT ![u] =
                     [@ EXCEPT !.pc = "stats", !.staged = {}, !.flushed = {}]]
               /\ UNCHANGED <<stats, unlocked>>
          ELSE /\ task' = [task EXCEPT ![u] = Returned]
               /\ stats' = [stats EXCEPT !.db_errors = @ + 1]
               /\ unlocked' = unlocked \cup Unheld({Write("stats", TRUE)})
               /\ UNCHANGED store
    /\ UNCHANGED <<mainPc, userIds, maxWorkers, tracker, unconfirmed,
                   storeAtStale, staleCalls, staleOutcome, req, pass,
                   batchSize, calls, env, norm, staleFailedIn, signing,
                   listed>>

\* Lines 292-299, then finally: session.close().
UpdateStats(u) ==
    /\ task[u].pc = "stats"
    /\ stats' = [stats EXCEPT
          !.users_processed = @ + 1,
          !.publications_added = @ + task[u].publications_added,
          !.publications_updated = @ + task[u].publications_updated,
          !.grants_added = @ + task[u].grants_added,
          !.grants_updated = @ + task[u].grants_updated,
          !.duplicates_skipped = @ + task[u].duplicates]
    /\ unlocked' = unlocked \cup Unheld({Write("stats", TRUE)})
    /\ task' = [task EXCEPT ![u] = Returned]
    /\ UNCHANGED <<mainPc, userIds, maxWorkers, store, tracker, unconfirmed,
                   storeAtStale, staleCalls, staleOutcome, req, pass,
                   batchSize, calls, env, norm, staleFailedIn, signing,
                   listed>>

\* -------------------------------------------------------- delete_stale_data
\* Variant: each kind is reconciled against the ids seen for the other kind.
SeenOfOtherKind(kind) ==
    IF kind = "publications" THEN tracker.seen_grants ELSE tracker.seen_publications

Seen(kind) ==
    IF kind = "publications" THEN tracker.seen_publications ELSE tracker.seen_grants

\* Variant: the per-kind `if self.tracker.seen_...` test is missing.
DeleteKindUnguarded(kind) == DeleteStaleActivities(store[kind], Seen(kind))

\* Lines 336-353: one kind's deletion, made only if ids of that kind were seen.
DeleteKind(kind) ==
    IF Seen(kind) # {}
    THEN DeleteStaleActivities(store[kind], Seen(kind))
    ELSE [rows |-> {}, deleted_count |-> 0]

\* Where the one session of delete_stale_data can hit an exception: in the
\* query and deletes of a kind whose ids were seen, or in the commit; "none"
\* when it does not.
StaleFailurePoints ==
    IF pass.mode = "single"
    THEN {"none", "commit"} \cup {k \in Kinds : Seen(k) # {}}
    ELSE {"none"}

\* Variant: an exception in delete_stale_data is raised on to the caller.
DeleteStaleDataRaises ==
    /\ mainPc = "stale"
    /\ storeAtStale' = store
    /\ staleCalls' = staleCalls + 1
    /\ IF tracker.seen_publications = {} /\ tracker.seen_grants = {}
       THEN /\ staleOutcome' = "skipped"
            /\ mainPc' = "done"
            /\ UNCHANGED <<store, stats, staleFailedIn>>
       ELSE \E at \in StaleFailurePoints :
            /\ staleFailedIn' = at
            /\ IF at = "none"
               THEN /\ store' = [k \in Kinds |-> store[k] \ DeleteKind(k).rows]
                    /\ stats' = [stats EXCEPT
                         !.publications_deleted =
                             DeleteKind("publications").deleted_count,
                         !.grants_deleted = DeleteKind("grants").deleted_count]
                    /\ staleOutcome' = "committed"
                    /\ mainPc' = "done"
               ELSE /\ staleOutcome' = "failed"
                    /\ mainPc' = "raised"
                    /\ UNCHANGED <<store, stats>>
    /\ UNCHANGED <<userIds, maxWorkers, task, tracker, unconfirmed, req, pass,
                   unlocked, batchSize, calls, env, norm, signing,
                   listed>>

\* Lines 323-367.  On an exception: rollback, and the stats stay untouched.
DeleteStaleData ==
    /\ mainPc = "stale"
    /\ mainPc' = "done"
    /\ storeAtStale' = store
    /\ staleCalls' = staleCalls + 1
    /\ IF tracker.seen_publications = {} /\ tracker.seen_grants = {}
       THEN /\ staleOutcome' = "skipped"
            /\ UNCHANGED <<store, stats, staleFailedIn>>
       ELSE \E at \in StaleFailurePoints :
            /\ staleFailedIn' = at
            /\ IF at = "none"
               THEN /\ store' = [k \in Kinds |-> store[k] \ DeleteKind(k).rows]
                    /\ stats' = [stats EXCEPT
                         !.publications_deleted =
                             DeleteKind("publications").deleted_count,
                         !.grants_deleted = DeleteKind("grants").deleted_count]
                    /\ staleOutcome' = "committed"
               ELSE \* except Exception: session.rollback() undoes every
                    \* delete of the session, of either kind
                    /\ staleOutcome' = "failed"
                    /\ UNCHANGED <<store, stats>>
    /\ UNCHANGED <<userIds, maxWorkers, task, tracker, unconfirmed, req, pass,
                   unlocked, batchSize, calls, env, norm, signing,
                   listed>>

\* ------------------------------------------------------- collect_activities
\* Variant: --batch is ignored.
BatchNoCap(user_ids, batch_size) == user_ids

\* Lines 380-382: user_ids[:batch_size] when a batch size is given.
Batch(user_ids, batch_size) ==
    IF batch_size # 0
    THEN SubSeq(user_ids, 1, IF batch_size < Len(user_ids)
                             THEN batch_size ELSE Len(user_ids))
    ELSE user_ids

\* Lines 373-397: list the users; none: return; else submit one call each.
ListUsers ==
    /\ mainPc = "start"
    /\ IF userIds = <<>>
       THEN /\ mainPc' = "returned"
            /\ UNCHANGED <<task, userIds>>
       ELSE /\ mainPc' = "processing"
            /\ userIds' = Batch(userIds, batchSize)
            /\ task' = [u \in Subjects |->
                  IF \E i \in 1..Len(Batch(userIds, batchSize)) :
                        Batch(userIds, batchSize)[i] = u
                  THEN NewTask("queued") ELSE task[u]]
    /\ UNCHANGED <<maxWorkers, store, tracker, stats, unconfirmed,
                   storeAtStale, staleCalls, staleOutcome, req, pass,
                   unlocked, batchSize, calls, env, norm, staleFailedIn,
                   signing,
                   listed>>

\* Variant: the pool is left without waiting for the submitted calls.
JoinNoWait ==
    /\ mainPc = "processing"
    /\ mainPc' = "stale"
    /\ UNCHANGED <<userIds, maxWorkers, task, store, tracker, stats,
                   unconfirmed, storeAtStale, staleCalls, staleOutcome, req,
                   pass, unlocked, batchSize, calls, env, norm, staleFailedIn,
                   signing,
                   listed>>

\* Variant: the pass is given up when a subject has failed.
JoinUnlessFailed ==
    /\ mainPc = "processing"
    /\ IF stats.db_errors = 0 /\ stats.parse_errors = 0
       THEN \A u \in Subjects : task[u].pc \in {"done", "unsubmitted"}
       ELSE TRUE
    /\ mainPc' = "stale"
    /\ UNCHANGED <<userIds, maxWorkers, task, store, tracker, stats,
                   unconfirmed, storeAtStale, staleCalls, staleOutcome, req,
                   pass, unlocked, batchSize, calls, env, norm, staleFailedIn,
                   signing,
                   listed>>

\* Lines 399-415: as_completed drains every future and the executor's
\* with-block ends only when every submitted call has returned.
Join ==
    /\ mainPc = "processing"
    /\ \A u \in Subjects : task[u].pc \in {"done", "unsubmitted"}
    /\ mainPc' = "stale"
    /\ UNCHANGED <<userIds, maxWorkers, task, store, tracker, stats,
                   unconfirmed, storeAtStale, staleCalls, staleOutcome, req,
                   pass, unlocked, batchSize, calls, env, norm, staleFailedIn,
                   signing,
                   listed>>

\* collect_activities has returned: at line 377 or after the last line.
RunEnded == mainPc \in {"returned", "done"}

\* Lines 420-433 were executed: the final statistics were logged.
SummaryReported == mainPc = "done"

\* ---------------------------------------------------------------- the run
InitRows == {Row(a, u, "old") : a \in 1..MaxId, u \in Subjects}

UniqueIds(rows) ==
    \A r1 \in rows, r2 \in rows : r1.activityid = r2.activityid => r1 = r2

InitStores ==
    {s \in [Kinds -> {rows \in SUBSET InitRows :
                        Cardinality(rows) <= MaxRows /\ UniqueIds(rows)}] :
        Cardinality(s["publications"]) + Cardinality(s["grants"]) <= MaxRows}

EmptyStore == [k \in Kinds |-> {}]

\* The script is run once; nothing is kept for a later run.
SinglePass ==
    [mode |-> "single", phase |-> 1,
     remote |-> [u \in Subjects |-> [known |-> FALSE, feed |-> <<<<>>, <<>>>>]],
     store0 |-> [k \in Kinds |-> {}],
     first |-> [store |-> [k \in Kinds |-> {}], stats |-> ZeroStats]]

Init ==
    /\ mainPc = "start"
    /\ userIds \in {[i \in 1..n |-> i] : n \in 0..NumUsers}
    /\ maxWorkers \in 1..MaxWorkers
    /\ task = [u \in Subjects |-> NewTask("unsubmitted")]
    /\ store \in InitStores
    /\ tracker = EmptyTracker
    /\ stats = ZeroStats
    /\ unconfirmed = [k \in Kinds |-> {}]
    /\ storeAtStale = EmptyStore
    /\ staleCalls = 0
    /\ listed = userIds
    /\ signing = NoSigning
    /\ staleFailedIn = "none"
    /\ norm = NoCall
    /\ env = FullEnv
    /\ calls = [u \in Subjects |-> 0]
    /\ batchSize \in 0..MaxBatch
    /\ unlocked = {}
    /\ staleOutcome = "none"
    /\ req = NoRequest
    /\ pass = SinglePass

Next ==
    \/ ListUsers
    \/ \E u \in Subjects : StartUser(u)
    \/ \E u \in Subjects : ProcessPublication(u)
    \/ \E u \in Subjects : ProcessGrant(u)
    \/ \E u \in Subjects : DeadlockVictim(u)
    \/ \E u \in Subjects : Commit(u)
    \/ \E u \in Subjects : UpdateStats(u)
    \/ Join
    \/ DeleteStaleData

Spec == Init /\ [][Next]_vars

\* The pool runs every submitted call, the database ends every wait, and the
\* main thread goes on once the pool is drained: a step that can be taken is
\* taken.
InitLive == Init /\ maxWorkers = MaxWorkers /\ batchSize = 0

SpecLive == InitLive /\ [][Next]_vars /\ WF_vars(Next)

\* ----------------------------------------------------------- construction
\* Variant: the tenant database id is not looked at.
CredentialsPresentKeysOnly(e) == e["API_PUBLIC_KEY"] /\ e["API_PRIVATE_KEY"]

\* Line 55: all([api_key, api_secret, database_id]).
CredentialsPresent(e) == \A c \in Credentials : e[c]

\* main builds the ActivityCollector, whose __init__ builds the
\* InterfolioAPI: ValueError when a credential is missing, which nothing
\* catches; otherwise main goes on to collect_activities.
Construct ==
    /\ mainPc = "new"
    /\ mainPc' = IF CredentialsPresent(env) THEN "start" ELSE "config_error"
    /\ UNCHANGED <<userIds, maxWorkers, task, store, tracker, stats,
                   unconfirmed, storeAtStale, staleCalls, staleOutcome, req,
                   pass, unlocked, batchSize, calls, env, norm, staleFailedIn,
                   signing,
                   listed>>

\* The script is started in any environment; store0 keeps the rows found.
InitConstruct ==
    /\ mainPc = "new"
    /\ userIds \in {[i \in 1..n |-> i] : n \in 0..NumUsers}
    /\ maxWorkers = MaxWorkers
    /\ task = [u \in Subjects |-> NewTask("unsubmitted")]
    /\ store \in InitStores
    /\ tracker = EmptyTracker
    /\ stats = ZeroStats
    /\ unconfirmed = [k \in Kinds |-> {}]
    /\ storeAtStale = EmptyStore
    /\ staleCalls = 0
    /\ staleOutcome = "none"
    /\ req = NoRequest
    /\ pass = [SinglePass EXCEPT !.store0 = store]
    /\ unlocked = {}
    /\ batchSize = 0
    /\ calls = [u \in Subjects |-> 0]
    /\ env \in [Credentials -> BOOLEAN]
    /\ norm = NoCall
    /\ staleFailedIn = "none"
    /\ signing = NoSigning
    /\ listed = userIds

NextConstruct == Construct \/ Next

SpecConstruct == InitConstruct /\ [][NextConstruct]_vars

\* ------------------------------------------------------- successive runs
\* The script is started again: a new ActivityCollector (tracker, stats), the
\* same remote feed.  In mode "twice" the store is what the first run left;
\* in mode "order" the run is repeated from the first run's initial store
\* with the full worker pool.
NextPass ==
    /\ mainPc = "done"
    /\ pass.mode # "single"
    /\ pass.phase = 1
    /\ mainPc' = "start"
    /\ pass' = [pass EXCEPT !.phase = 2,
                            !.first = [store |-> store, stats |-> stats]]
    /\ store' = IF pass.mode = "order" THEN pass.store0 ELSE store
    /\ maxWorkers' = IF pass.mode = "order" THEN MaxWorkers ELSE maxWorkers
    /\ task' = [u \in Subjects |-> NewTask("unsubmitted")]
    /\ tracker' = EmptyTracker
    /\ stats' = ZeroStats
    /\ unconfirmed' = [k \in Kinds |-> {}]
    /\ storeAtStale' = EmptyStore
    /\ staleCalls' = 0
    /\ staleOutcome' = "none"
    /\ unlocked' = {}
    /\ calls' = [u \in Subjects |-> 0]
    /\ staleFailedIn' = "none"
    /\ UNCHANGED <<userIds, req, batchSize, env, norm, signing,
                   listed>>

InitPass(mode) ==
    /\ mainPc = "start"
    /\ userIds \in {[i \in 1..n |-> i] : n \in 0..NumUsers}
    /\ maxWorkers = 1
    /\ task = [u \in Subjects |-> NewTask("unsubmitted")]
    /\ store \in InitStores
    /\ tracker = EmptyTracker
    /\ stats = ZeroStats
    /\ unconfirmed = [k \in Kinds |-> {}]
    /\ storeAtStale = EmptyStore
    /\ staleCalls = 0
    /\ listed = userIds
    /\ signing = NoSigning
    /\ staleFailedIn = "none"
    /\ norm = NoCall
    /\ env = FullEnv
    /\ calls = [u \in Subjects |-> 0]
    /\ batchSize = 0
    /\ unlocked = {}
    /\ staleOutcome = "none"
    /\ req = NoRequest
    /\ pass = [SinglePass EXCEPT !.mode = mode, !.store0 = store]

\* Two runs in succession with one worker: no transaction ever waits.
InitTwice == InitPass("twice")

NextSequential ==
    \/ ListUsers
    \/ \E u \in Subjects : StartUser(u)
    \/ \E u \in Subjects : ProcessPublication(u)
    \/ \E u \in Subjects : ProcessGrant(u)
    \/ \E u \in Subjects : Commit(u)
    \/ \E u \in Subjects : UpdateStats(u)
    \/ Join
    \/ DeleteStaleData

NextTwice == NextSequential \/ NextPass

SpecTwice == InitTwice /\ [][NextTwice]_vars

\* One run, one subject at most, whose feeds may hold malformed activities.
InitMalformed == InitPass("malformed") /\ Len(userIds) <= 1

SpecMalformed == InitMalformed /\ [][NextSequential]_vars

\* One run on an empty store, one subject at most, whose feeds hold
\* activities with every kind of discriminator.
InitFilter == InitPass("filter") /\ Len(userIds) <= 1 /\ store = EmptyStore

SpecFilter == InitFilter /\ [][NextSequential]_vars

\* One run, one subject at most, whose feeds hold up to MaxLongFeedLen
\* activities.
InitLong == InitPass("long") /\ Len(userIds) <= 1

SpecLong == InitLong /\ [][NextSequential]_vars

\* One run with one worker, then the same run with the full pool.
InitOrder == InitPass("order")

NextOrder == Next \/ NextPass

SpecOrder == InitOrder /\ [][NextOrder]_vars

\* ------------------------------------------------ a feed getter on its own
\* Bodies a 200 response may parse to: a shape and what the feed key holds.
FetchBodies ==
    {[shape |-> sh, acts |-> a] :
        sh \in Shapes,
        a \in {<<>>, <<[activityid |-> 1, Type |-> "Journal Article",
                         status |-> "mapping"]>>}}

\* Everything of a run at rest: no collector is at work.
AtRest ==
    /\ mainPc = "none"
    /\ userIds = <<>>
    /\ maxWorkers = 1
    /\ task = [u \in Subjects |-> NewTask("unsubmitted")]
    /\ store = EmptyStore
    /\ tracker = EmptyTracker
    /\ stats = ZeroStats
    /\ unconfirmed = [k \in Kinds |-> {}]
    /\ storeAtStale = EmptyStore
    /\ staleCalls = 0
    /\ listed = userIds
    /\ staleFailedIn = "none"
    /\ env = FullEnv
    /\ calls = [u \in Subjects |-> 0]
    /\ batchSize = 0
    /\ unlocked = {}
    /\ staleOutcome = "none"
    /\ pass = SinglePass

InitFetch ==
    /\ AtRest
    /\ norm = NoCall
    /\ signing = NoSigning
    /\ req \in [pc : {"call"}, answers : [1..max_retries -> Answers],
                outs : {<<>>}, body : FetchBodies,
                response : {ReturnNone(0, <<>>)}, activities : {<<>>}]

\* get_user_publications / get_user_grants: _make_request, then the shape test.
GetUserFeed ==
    /\ req.pc = "call"
    /\ LET outs == [i \in 1..max_retries |-> Outcome(req.answers[i])]
       IN req' = [req EXCEPT
             !.pc = "returned",
             !.outs = outs,
             !.response = MakeRequest(outs, req.body),
             !.activities = GetUserActivities(MakeRequest(outs, req.body))]
    /\ UNCHANGED <<mainPc, userIds, maxWorkers, task, store, tracker, stats,
                   unconfirmed, storeAtStale, staleCalls, staleOutcome, pass,
                   unlocked, batchSize, calls, env, norm, staleFailedIn,
                   signing,
                   listed>>

NextFetch == GetUserFeed

SpecFetch == InitFetch /\ [][NextFetch]_vars

\* ----------------------------------------- the signing of requests on its own
\* The two feeds' endpoints, the getters' query strings for the subjects,
\* and the clock of line 71, which has a resolution of one second.
Endpoints == {"/activities/-21", "/activities/-11"}
QueryParams == {"?data=detailed&userlist=" \o Digits(u)[1] : u \in Subjects}
Timestamps == {"2024-05-01 10:00:00", "2024-05-01 10:00:01"}

SigningCalls ==
    [pc : {"call"}, endpoint : Endpoints, query_params : QueryParams,
     timestamp : Timestamps, prepared : {NoPrepared}]

InitSign ==
    /\ AtRest
    /\ req = NoRequest
    /\ norm = NoCall
    /\ signing \in [api : [api_key : {"k"}, api_secret : {"s1", "s2"},
                           database_id : {"db"}],
                    calls : [1..2 -> SigningCalls]]

\* _make_request up to line 84, for the i-th of the two calls.
Sign(i) ==
    /\ signing.calls # <<>>
    /\ signing.calls[i].pc = "call"
    /\ signing' = [signing EXCEPT
          !.calls[i].pc = "prepared",
          !.calls[i].prepared =
              PrepareRequest(signing.api, signing.calls[i].endpoint,
                             signing.calls[i].query_params,
                             signing.calls[i].timestamp)]
    /\ UNCHANGED <<mainPc, userIds, maxWorkers, task, store, tracker, stats,
                   unconfirmed, storeAtStale, staleCalls, staleOutcome, req,
                   pass, unlocked, batchSize, calls, env, norm,
                   staleFailedIn,
                   listed>>

NextSign == \E i \in 1..2 : Sign(i)

SpecSign == InitSign /\ [][NextSign]_vars

\* --------------------------------------------- a normalizer on its own
\* A key the payload does not hold.
Missing == [t |-> "missing"]

\* The item of a dict under construction, none for a missing key.
Opt(key, value) == IF value = Missing THEN <<>> ELSE <<<<key, value>>>>

\* A raw activity of the feed.
Activity(activityid, fields, status, funding) ==
    PyDict(Opt("activityid", activityid) \o <<<<"fields", PyDict(fields)>>>>
           \o Opt("status", status) \o Opt("funding", funding))

\* Fields that pass the normalizer's discriminator test.
PubFields(more) == <<<<"Type", JournalArticle>>>> \o more
GrantFields(more) ==
    <<<<"Grant ID / Contract ID", PyStr(<<"G", "1">>)>>>> \o more

\* n characters "a", with a "b" in place k when there is such a place.
Pattern(n, k) == [i \in 1..n |-> IF i = k THEN "b" ELSE "a"]

\* Source values of a field: strings up to MaxSrcLen characters, numbers,
\* null, and the key left out.
SrcValues ==
    {PyStr(Pattern(n, k)) : n \in 0..MaxSrcLen, k \in 0..MaxSrcLen}
        \cup {PyNone, Missing, PyInt(0), PyInt(7), PyInt(2024), PyInt(20245)}

Call(kind, activity_data) ==
    [pc |-> "call", kind |-> kind, activity_data |-> activity_data,
     entity |-> PyNone]

\* Activities that differ in one field cut to a declared length.
TruncationInputs ==
    {Call("publications",
          Activity(PyInt(1), PubFields(Opt("ISBN", v)), Missing, Missing)) :
        v \in SrcValues}
    \cup {Call("publications",
               Activity(PyInt(1), PubFields(Opt("Year", v)), Missing, Missing)) :
            v \in SrcValues}
    \cup {Call("grants",
               Activity(PyInt(1), GrantFields(Opt("Currency Type", v)),
                        Missing, Missing)) :
            v \in SrcValues}

\* Entries of a funding mapping: mappings with or without a funded amount,
\* and values that are no mappings.
FundingEntries ==
    {PyDict(Opt("fundedamount", v)) :
        v \in {Missing, PyInt(0), PyInt(7), PyInt(500), PyStr(<<>>)}}
        \cup {PyNone, PyList(<<>>)}

\* Orders in which a funding mapping may hold the keys "1" and "2".
FundingKeys ==
    {<<>>, <<Digits(1)>>, <<Digits(2)>>, <<Digits(1), Digits(2)>>,
     <<Digits(2), Digits(1)>>}

\* What activity_data["funding"] may be.
FundingValues ==
    UNION {{PyDict([i \in 1..Len(keys) |-> <<keys[i], entries[i]>>]) :
               entries \in [1..Len(keys) -> FundingEntries]} :
           keys \in FundingKeys}
        \cup {Missing, PyNone, PyList(<<PyDict(<<<<"fundedamount", PyInt(7)>>>>)>>)}

\* Grants that differ in their funding and in the two top-level amounts.
FundingInputs ==
    {Call("grants",
          Activity(PyInt(id),
                   GrantFields(Opt("Total Funding", total) \o Opt("Amount", amount)),
                   Missing, funding)) :
        id \in 1..2,
        total \in {Missing, PyInt(0), PyInt(999), PyStr(<<>>)},
        amount \in {Missing, PyInt(42)},
        funding \in FundingValues}

\* A status mapping with the keys given a value.
StatusMapping(status, term, year) ==
    PyDict(Opt("status", status) \o Opt("term", term) \o Opt("year", year))

\* Elements of a status list: mappings, full, partial or empty, and values
\* that are no mappings.
StatusElements ==
    {StatusMapping(PyStr(<<"A">>), PyStr(<<"T">>), PyInt(2024)),
     StatusMapping(PyStr(<<"B">>), PyStr(<<"U">>), PyInt(1999)),
     StatusMapping(PyStr(<<"A">>), Missing, Missing),
     EmptyDict, PyNone, PyStr(<<"x">>)}

\* What activity_data["status"] may be.
StatusValues ==
    {PyList(elements) : elements \in SeqsUpTo(StatusElements, 2)}
        \cup {e \in StatusElements : e.t = "dict"}
        \cup {Missing, PyNone, PyStr(<<"x">>)}

\* Activities of both kinds that differ in their status.
StatusInputs ==
    {Call("publications", Activity(PyInt(1), PubFields(<<>>), status, Missing)) :
        status \in StatusValues}
    \cup {Call("grants", Activity(PyInt(1), GrantFields(<<>>), status, Missing)) :
            status \in StatusValues}

NormInputs == TruncationInputs \cup FundingInputs \cup StatusInputs

InitNormalize ==
    /\ AtRest
    /\ req = NoRequest
    /\ signing = NoSigning
    /\ norm \in NormInputs

\* create_publication_from_api / create_grant_from_api on one raw activity.
Normalize ==
    /\ norm.pc = "call"
    /\ norm' = [norm EXCEPT
          !.pc = "returned",
          !.entity =
              IF norm.kind = "publications"
              THEN create_publication_from_api(norm.activity_data,
                                               PyStr(<<"u", "1">>))
              ELSE create_grant_from_api(norm.activity_data,
                                         PyStr(<<"u", "1">>))]
    /\ UNCHANGED <<mainPc, userIds, maxWorkers, task, store, tracker, stats,
                   unconfirmed, storeAtStale, staleCalls, staleOutcome, req,
                   pass, unlocked, batchSize, calls, env, staleFailedIn,
                   signing,
                   listed>>

NextNormalize == Normalize

SpecNormalize == InitNormalize /\ [][NextNormalize]_vars

\* ------------------------------------------- delete_stale_data on its own
\* The states in which collect_activities enters delete_stale_data: any set
\* of persisted rows (activityid 0 stands for a null or zero activityid, as
\* rows written without the activityid test can carry) and any seen sets.
StaleInitRows == {Row(a, 1, "old") : a \in 0..MaxStaleId}

InitStale ==
    /\ mainPc = "stale"
    /\ userIds = [i \in 1..NumUsers |-> i]
    /\ maxWorkers = 1
    /\ task = [u \in Subjects |-> Returned]
    /\ store \in [Kinds -> SUBSET StaleInitRows]
    /\ tracker \in [seen_users : {Subjects},
                    seen_publications : SUBSET (1..MaxStaleId),
                    seen_grants : SUBSET (1..MaxStaleId)]
    /\ stats = ZeroStats
    /\ unconfirmed = [k \in Kinds |-> {}]
    /\ storeAtStale = EmptyStore
    /\ staleCalls = 0
    /\ listed = userIds
    /\ signing = NoSigning
    /\ staleFailedIn = "none"
    /\ norm = NoCall
    /\ env = FullEnv
    /\ calls = [u \in Subjects |-> 0]
    /\ batchSize = 0
    /\ unlocked = {}
    /\ staleOutcome = "none"
    /\ req = NoRequest
    /\ pass = SinglePass

NextStale == DeleteStaleData

SpecStale == InitStale /\ [][NextStale]_vars

\* ------------------------------ the tracker and the reconciliation on their own
\* Identifiers the tracker's methods may be called with; 0 stands for the
\* values Python's truth test turns down (None, 0, the empty string).
TrackIds == 0..MaxId

\* Persisted rows with and without an activityid.
TrackInitRows == {Row(a, 1, "old") : a \in 0..1}

InitTrack ==
    /\ mainPc = "processing"
    /\ userIds = <<>>
    /\ maxWorkers = 1
    /\ task = [u \in Subjects |-> NewTask("unsubmitted")]
    /\ store \in [Kinds -> SUBSET TrackInitRows]
    /\ tracker = EmptyTracker
    /\ stats = ZeroStats
    /\ unconfirmed = [k \in Kinds |-> {}]
    /\ storeAtStale = EmptyStore
    /\ staleCalls = 0
    /\ signing = NoSigning
    /\ staleFailedIn = "none"
    /\ norm = NoCall
    /\ env = FullEnv
    /\ calls = [u \in Subjects |-> 0]
    /\ batchSize = 0
    /\ unlocked = {}
    /\ staleOutcome = "none"
    /\ req = NoRequest
    /\ pass = SinglePass
    /\ listed = userIds

\* One call of track_user, track_publication or track_grant.
TrackCall(method, id) ==
    /\ mainPc = "processing"
    /\ tracker' = CASE method = "track_user" -> TrackUser(tracker, id)
                    [] method = "track_publication" -> TrackPublication(tracker, id)
                    [] method = "track_grant" -> TrackGrant(tracker, id)
    /\ UNCHANGED <<mainPc, userIds, maxWorkers, task, store, stats,
                   unconfirmed, storeAtStale, staleCalls, staleOutcome, req,
                   pass, unlocked, batchSize, calls, env, norm, staleFailedIn,
                   signing, listed>>

\* Any calls of the tracker's methods, then the reconciliation.
NextTrack ==
    \/ \E method \in {"track_user", "track_publication", "track_grant"},
          id \in TrackIds : TrackCall(method, id)
    \/ Join
    \/ DeleteStaleData

SpecTrack == InitTrack /\ [][NextTrack]_vars

\* =================================================================== claims
Ids(rows) == {r.activityid : r \in rows}

\* Rows of a kind the reconciliation step removed from the store.
Deleted(kind) == storeAtStale[kind] \ store[kind]

DeletedCount(kind) ==
    IF kind = "publications" THEN stats.publications_deleted
    ELSE stats.grants_deleted

\* C1: a kind whose observed set is empty loses no row in the reconciliation
\* step, whatever rows are persisted and whatever the other kind observed.
C1_SafetyValve ==
    mainPc = "done" =>
        \A k \in Kinds : Seen(k) = {} => store[k] = storeAtStale[k]

C1_Witness ==
    /\ mainPc = "done"
    /\ staleOutcome = "committed"
    /\ Seen("publications") = {}
    /\ Ids(storeAtStale["publications"]) = {1, 2}
    /\ Deleted("grants") # {}

\* C2 as stated: for a kind with a non-empty observed set the deleted rows are
\* exactly those with (persisted ids) minus (observed ids), and the count
\* reported is the size of that set.
C2_Original ==
    (mainPc = "done" /\ staleOutcome = "committed") =>
        \A k \in Kinds : Seen(k) # {} =>
            /\ Ids(Deleted(k)) = Ids(storeAtStale[k]) \ Seen(k)
            /\ DeletedCount(k) = Cardinality(Ids(storeAtStale[k]) \ Seen(k))

\* C2 amended: the deleted rows are exactly the persisted rows whose
\* activityid is neither null/zero nor observed, and the count reported is
\* their number; a row with a null or zero activityid stays.
C2_StaleIsPersistedMinusObserved ==
    (mainPc = "done" /\ staleOutcome = "committed") =>
        \A k \in Kinds : Seen(k) # {} =>
            /\ Deleted(k) = {r \in storeAtStale[k] :
                               r.activityid \in (Ids(storeAtStale[k]) \ {0}) \ Seen(k)}
            /\ DeletedCount(k) = Cardinality((Ids(storeAtStale[k]) \ {0}) \ Seen(k))

C2_Witness ==
    /\ mainPc = "done"
    /\ staleOutcome = "committed"
    /\ Ids(storeAtStale["publications"]) = {1, 2, 3}
    /\ Seen("publications") = {1, 2}
    /\ Ids(store["publications"]) = {1, 2}
    /\ stats.publications_deleted = 1

\* C3: delete_stale_data starts only when every submitted process_user call
\* has returned, and a run with at least one subject calls it exactly once.
C3_StaleAfterAllSubjects ==
    /\ mainPc \in {"stale", "done"} =>
          \A i \in 1..Len(userIds) : task[userIds[i]].pc = "done"
    /\ staleCalls > 0 => \A u \in Subjects : ~Running(u)
    /\ staleCalls <= 1
    /\ mainPc = "done" => staleCalls = 1 /\ userIds # <<>>
    /\ mainPc = "returned" => userIds = <<>>

C3_Witness ==
    /\ mainPc = "done"
    /\ Len(userIds) = 2
    /\ maxWorkers = 2
    /\ staleCalls = 1
    /\ staleOutcome = "committed"
    /\ stats.users_processed = 2
    /\ stats.publications_added = 2

\* C4: a row whose owner's fetch of that kind ended in NoData during the pass
\* is not deleted by the reconciliation step.
C4_UnconfirmedRowsSurvive ==
    mainPc = "done" =>
        \A k \in Kinds : \A r \in storeAtStale[k] :
            r.activityid \in unconfirmed[k] => r \in store[k]

\* C7: at most 3 attempts; 429, 429, then a JSON response gives that payload
\* after exactly two sleeps, of 2 s and 4 s.
C7_RetryThenSuccess ==
    req.pc = "returned" =>
        /\ req.response.attempts <= 3
        /\ req.outs = <<"r429", "r429", "json">> =>
              /\ req.response.status = "json"
              /\ req.response.body = req.body
              /\ req.response.sleeps = <<2, 4>>

C7_Witness ==
    /\ req.pc = "returned"
    /\ req.outs = <<"r429", "r429", "json">>
    /\ req.body.shape = "feed_list"
    /\ Len(req.activities) = 1

\* C8: whatever each attempt brings, _make_request ends within 3 attempts
\* with a payload or None, never an exception, and on None the getter
\* returns the empty list.
C8_NoDataNeverRaises ==
    req.pc = "returned" =>
        /\ req.response.attempts \in 1..3
        /\ req.response.status \in {"json", "None"}
        /\ req.response.status = "json" => req.outs[req.response.attempts] = "json"
        /\ req.response.status = "None" => req.activities = <<>>

C8_Witness ==
    /\ req.pc = "returned"
    /\ req.outs = <<"timeout", "http_error", "bad_json">>
    /\ req.response.status = "None"
    /\ req.response.attempts = 3
    /\ req.activities = <<>>

\* A run in which no item and no transaction failed.
NoFailures(st) ==
    st.parse_errors = 0 /\ st.db_errors = 0

\* C5: run twice against an unchanged feed with no failure of the remote or
\* of the store, the second run reports nothing added, updated or deleted
\* and leaves the store as the first run left it.
C5_SecondRunIsNoOp ==
    (/\ pass.mode = "twice" /\ pass.phase = 2 /\ mainPc = "done"
     /\ NoFailures(pass.first.stats) /\ pass.first.stats.duplicates_skipped = 0
     /\ NoFailures(stats)) =>
        /\ stats.publications_added = 0 /\ stats.grants_added = 0
        /\ stats.publications_updated = 0 /\ stats.grants_updated = 0
        /\ stats.publications_deleted = 0 /\ stats.grants_deleted = 0
        /\ store = pass.first.store

\* C10: with identical input, the run with the full worker pool ends, under
\* every interleaving, with the rows the one-worker run ends with.
C10_OrderIndependent ==
    (pass.mode = "order" /\ pass.phase = 2 /\ mainPc = "done") =>
        store = pass.first.store

\* C6: an entity whose activityid is already persisted is reported Updated
\* and, once the subject's commit has succeeded, the one row with that
\* activityid carries the entity's fields.
C6_UpdateOverwritesTheRow ==
    \A u \in Subjects :
        task[u].pc = "stats" =>
            \A e \in task[u].upserts :
                e[3] = "Updated" =>
                    {r \in store[e[1]] : r.activityid = e[2]} = {Row(e[2], u, "api")}

\* u decided to insert an activityid that another worker has committed since.
ConcurrentDuplicate(u) ==
    \E p \in task[u].staged :
        /\ <<p[1], p[2].activityid, "Added">> \in task[u].upserts
        /\ HasId(store[p[1]], p[2].activityid)

\* C9: when the INSERT of a concurrent duplicate fails, the failure is
\* counted as a skipped duplicate and not as a database error, and the rows
\* the subject has written so far in this pass are kept and committed.
C9_ConcurrentDuplicateIsSkipped ==
    [][\A u \in Subjects :
          (AtFlush(u) /\ ConcurrentDuplicate(u) /\ task'[u] # task[u]) =>
              /\ stats'.db_errors = stats.db_errors
              /\ task'[u].duplicates = task[u].duplicates + 1
              /\ \A p \in task[u].flushed :
                    p \in task'[u].flushed \/ p[2] \in store'[p[1]]]_vars

\* C11: whenever a worker mutates the tracker's seen sets or the stats
\* counters, it holds the lock: no shared object is ever written by a worker
\* outside a `with self.stats_lock:` block.
C11_SharedWritesHoldLock == unlocked = {}

\* C12: every subject of the (batch-capped) list is dispatched, no other
\* subject is, process_user is entered at most once per subject, and once the
\* pool is joined it has been entered exactly once for each listed subject.
C12_DispatchedExactlyOnce ==
    /\ \A u \in Subjects : calls[u] <= 1
    /\ mainPc \in {"processing", "stale", "done"} =>
          /\ batchSize # 0 => Len(userIds) <= batchSize
          /\ \A u \in Subjects :
                IF \E i \in 1..Len(userIds) : userIds[i] = u
                THEN task[u].pc # "unsubmitted"
                ELSE task[u].pc = "unsubmitted" /\ calls[u] = 0
    /\ mainPc \in {"stale", "done"} =>
          \A i \in 1..Len(userIds) : calls[userIds[i]] = 1

C12_Witness ==
    /\ mainPc = "done"
    /\ maxWorkers = 2
    /\ batchSize = 0
    /\ calls = [u \in Subjects |-> 1]
    /\ stats.db_errors = 1

\* C13: a run that has ended has reported the end-of-run statistics summary,
\* also when subjects failed and also when the subject list was empty.
C13_SummaryAlwaysReported == RunEnded => SummaryReported

\* C14: whatever fails while subjects are processed, the pass goes on: every
\* dispatched subject's process_user is entered and returns, and the
\* reconciliation step is then reached and run.
C14_FailuresDoNotAbortThePass ==
    /\ [](staleCalls > 0 =>
            \A i \in 1..Len(userIds) :
                calls[userIds[i]] = 1 /\ task[userIds[i]].pc = "done")
    /\ (mainPc = "processing") ~> (mainPc = "done" /\ staleCalls = 1)

C14_Witness ==
    /\ mainPc = "done"
    /\ staleOutcome = "committed"
    /\ stats.db_errors = 1
    /\ stats.users_processed = 1
    /\ stats.publications_added = 1
    /\ calls = [u \in Subjects |-> 1]

\* C15: with a credential missing, construction ends in the configuration
\* error and stays there: no subject is listed or processed, no request is
\* sent, no row is written or deleted, and nothing is tried again.
C15_MissingCredentialsFailFast ==
    /\ []((\E c \in Credentials : ~env[c]) =>
            /\ mainPc \in {"new", "config_error"}
            /\ store = pass.store0
            /\ \A u \in Subjects : task[u].pc = "unsubmitted" /\ calls[u] = 0
            /\ tracker = EmptyTracker
            /\ stats = ZeroStats
            /\ staleCalls = 0)
    /\ [][mainPc = "config_error" => mainPc' = "config_error"]_vars

C15_Witness ==
    /\ mainPc = "config_error"
    /\ env["API_PUBLIC_KEY"]
    /\ env["API_PRIVATE_KEY"]
    /\ ~env["TENANT_1_DATABASE_ID"]
    /\ Len(userIds) = 2
    /\ store # EmptyStore

\* Something failed while subjects were processed or in the stale deletion:
\* a feed fetch gave no data, an item or a commit failed, a duplicate was
\* rolled back, or delete_stale_data hit an exception.
SomethingFailed ==
    \/ stats.db_errors > 0
    \/ stats.parse_errors > 0
    \/ stats.duplicates_skipped > 0
    \/ \E k \in Kinds : unconfirmed[k] # {}
    \/ staleOutcome = "failed"

\* C16: the only error that leaves the run is the configuration error; a
\* failure during subject processing or stale deletion leaves the run going,
\* or ended in the normal way, and is never raised out of collect_activities.
C16_OnlyConfigurationErrorsPropagate ==
    /\ mainPc \in {"new", "config_error", "start", "returned",
                   "processing", "stale", "done"}
    /\ mainPc = "config_error" => \E c \in Credentials : ~env[c]
    /\ SomethingFailed => mainPc \in {"processing", "stale", "done"}
    /\ staleOutcome = "failed" => mainPc = "done" /\ store = storeAtStale

C16_Witness ==
    /\ mainPc = "done"
    /\ staleOutcome = "failed"
    /\ stats.db_errors = 1
    /\ stats.duplicates_skipped = 1
    /\ \A c \in Credentials : env[c]

\* The raw activity the next loop iteration of u's process_user normalizes.
CurRaw(u) ==
    IF task[u].publications # <<>> THEN Head(task[u].publications)
    ELSE Head(task[u].grants)

\* That iteration's normalizer hits a field that is no mapping.
AtMalformed(u) ==
    /\ task[u].pc = "loop"
    /\ ~AtCommit(u)
    /\ IF task[u].publications # <<>>
       THEN PublicationCoercion(CurRaw(u)) = "raises"
       ELSE GrantCoercion(CurRaw(u)) = "raises"

\* C17: the iteration on an activity whose normalization fails on a malformed
\* field counts exactly one parse error, and the loop goes on with the
\* subject's remaining activities.
C17_MalformedCountsAsParseError ==
    [][\A u \in Subjects :
          (AtMalformed(u) /\ task'[u] # task[u]) =>
              /\ stats'.parse_errors = stats.parse_errors + 1
              /\ task'[u].pc = "loop"]_vars

\* C18: the step in which a subject's commit fails adds one to db_errors and
\* changes no row of the store, and the run goes on: the other subjects'
\* calls are untouched and the pass is still processing.
C18_CommitFailureRollsBack ==
    [][\A u \in Subjects :
          (AtCommit(u) /\ task'[u].pc = "done") =>
              /\ stats'.db_errors = stats.db_errors + 1
              /\ store' = store
              /\ mainPc' = "processing"
              /\ \A v \in Subjects \ {u} : task'[v] = task[v]]_vars

C18_Witness ==
    /\ mainPc = "processing"
    /\ stats.db_errors = 1
    /\ task[1].pc = "done"
    /\ task[2].pc = "loop"
    /\ task[2].flushed # {}
    /\ \A k \in Kinds : \A r \in store[k] : r.title = "old"

\* C19: a process_user call holds a session of its own exactly while it
\* runs; whichever way the call returns, its session is closed with nothing
\* left pending, and once the pool is joined no session is open.
C19_SessionsAreReleased ==
    /\ \A u \in Subjects :
          /\ task[u].pc \in {"unsubmitted", "queued"} => task[u].session = "none"
          /\ task[u].pc \in {"loop", "stats"} => task[u].session = "open"
          /\ task[u].pc = "done" =>
                /\ task[u].session = "closed"
                /\ task[u].staged = {} /\ task[u].flushed = {}
    /\ Cardinality({u \in Subjects : task[u].session = "open"}) <= maxWorkers
    /\ mainPc \in {"stale", "done"} =>
          \A u \in Subjects : task[u].session # "open"

C19_Witness ==
    /\ mainPc = "done"
    /\ calls = [u \in Subjects |-> 1]
    /\ \A u \in Subjects : task[u].session = "closed"
    /\ stats.db_errors = 1
    /\ stats.users_processed = 1
    /\ stats.users_with_publications + stats.users_with_grants = 1

\* The upserts (session.add or session.merge calls) made so far by the
\* running calls for activityid a of a kind, as <<subject, outcome>>.
UpsertsOf(kind, a) ==
    {c \in Subjects \X {"Added", "Updated"} :
        <<kind, a, c[2]>> \in task[c[1]].upserts}

\* C20: for each kind and activityid at most one upsert is made in a pass,
\* also when the id occurs twice in a feed or in the feeds of two subjects.
C20_AtMostOneUpsertPerId ==
    \A k \in Kinds : \A a \in 1..MaxId : Cardinality(UpsertsOf(k, a)) <= 1

\* C21: no step taken while subjects are processed removes a persisted row:
\* process_user only adds rows to the store, and a row leaves the store only
\* in the step of the reconciliation (delete_stale_data).
C21_RowsLeaveOnlyInReconciliation ==
    [][/\ mainPc = "processing" => \A k \in Kinds : store[k] \subseteq store'[k]
       /\ (\E k \in Kinds : ~(store[k] \subseteq store'[k])) =>
             mainPc = "stale" /\ mainPc' = "done"]_vars

C21_Witness ==
    /\ mainPc = "processing"
    /\ \E r \in store["publications"] : r.title = "old" /\ r.user_id = 1
    /\ \E r \in store["publications"] : r.title = "api" /\ r.user_id = 1
    /\ task[1].pc = "done"
    /\ task[2].pc = "loop"

\* The text begins, after leading whitespace, with the start of markup.
MarkupAfterWhitespace(text) ==
    \E k \in 1..Len(text) :
        text[k] = "<" /\ \A j \in 1..(k - 1) : text[j] = " "

\* C22: a 200 response whose trimmed body starts with "<" ends the call at
\* that attempt with None, no further attempt and no sleep for it; and a
\* parsed body that is no object, lacks the feed key or holds no list under
\* it gives the empty activity list.
C22_HtmlAndOtherShapesAreNoData ==
    req.pc = "returned" =>
        /\ \A i \in 1..max_retries :
              (/\ req.response.attempts >= i
               /\ req.answers[i].kind = "ok"
               /\ MarkupAfterWhitespace(req.answers[i].text)) =>
                  /\ req.response.status = "None"
                  /\ req.response.attempts = i
                  /\ Len(req.response.sleeps) = i - 1
                  /\ req.activities = <<>>
        /\ (req.response.status = "json"
               /\ req.body.shape \in {"not_dict", "no_key", "not_list", "empty_dict"}) =>
              req.activities = <<>>

C22_Witness ==
    /\ req.pc = "returned"
    /\ req.answers[1] = [kind |-> "r429", text |-> <<>>]
    /\ req.answers[2] = [kind |-> "ok", text |-> <<" ", "<">>]
    /\ req.answers[3].kind = "ok"
    /\ req.body.acts # <<>>
    /\ req.response.status = "None"
    /\ req.response.attempts = 2
    /\ req.response.sleeps = <<2>>

\* The counters and pending rows of a call, which an iteration that does
\* nothing leaves as they are.
Effects(t) ==
    <<t.staged, t.flushed, t.upserts, t.duplicates, t.publications_added,
      t.publications_updated, t.grants_added, t.grants_updated>>

\* C23: for an activity of the publications feed whose Type is absent or is
\* not exactly "Journal Article" or "Book", create_publication_from_api
\* gives None, and the iteration on it tracks no id, stages and writes no
\* row and counts nothing.
C23_OtherTypesAreSkipped ==
    [][\A u \in Subjects :
          (/\ task[u].pc = "loop"
           /\ task[u].publications # <<>>
           /\ Head(task[u].publications).Type \notin {"Journal Article", "Book"}
           /\ task'[u] # task[u]) =>
              /\ CreatePublicationFromApi(Head(task[u].publications), u) = NoEntity
              /\ tracker' = tracker
              /\ store' = store
              /\ stats' = stats
              /\ Effects(task'[u]) = Effects(task[u])
              /\ task'[u].publications = Tail(task[u].publications)]_vars

C23_Witness ==
    /\ pass.mode = "filter"
    /\ mainPc = "done"
    /\ pass.remote[1].feed[1] =
          <<[activityid |-> 1, Type |-> "journal article", status |-> "mapping"],
            [activityid |-> 2, Type |-> "Book", status |-> "mapping"]>>
    /\ pass.store0 = EmptyStore
    /\ tracker.seen_publications = {2}
    /\ store["publications"] = {Row(2, 1, "api")}
    /\ stats.publications_added = 1

\* C24: for an activity of the grants feed whose Grant ID / Contract ID is
\* absent or empty, create_grant_from_api gives None, and the iteration on it
\* tracks no id, stages and writes no row and counts nothing.
C24_GrantsWithoutIdAreSkipped ==
    [][\A u \in Subjects :
          (/\ task[u].pc = "loop"
           /\ task[u].publications = <<>>
           /\ task[u].grants # <<>>
           /\ Head(task[u].grants).GrantID \in {"", Absent}
           /\ task'[u] # task[u]) =>
              /\ CreateGrantFromApi(Head(task[u].grants), u) = NoEntity
              /\ tracker' = tracker
              /\ store' = store
              /\ stats' = stats
              /\ Effects(task'[u]) = Effects(task[u])
              /\ task'[u].grants = Tail(task[u].grants)]_vars

C24_Witness ==
    /\ pass.mode = "filter"
    /\ mainPc = "done"
    /\ pass.remote[1].feed[2] =
          <<[activityid |-> 1, GrantID |-> Absent, status |-> "mapping"],
            [activityid |-> 2, GrantID |-> "G1", status |-> "mapping"]>>
    /\ pass.store0 = EmptyStore
    /\ tracker.seen_grants = {2}
    /\ store["grants"] = {Row(2, 1, "api")}
    /\ stats.grants_added = 1

\* The fields of the activity a normalizer was called on.
NormFields == Get(norm.activity_data, "fields", EmptyDict)

\* The discriminator test of the entity kind is met.
Accepted ==
    IF norm.kind = "publications"
    THEN Get(NormFields, "Type", PyStr(<<>>)) \in {JournalArticle, Book}
    ELSE IsTrue(Get(NormFields, "Grant ID / Contract ID", PyNone))

\* status is absent, null, a mapping or a sequence of mappings.
StatusOk ==
    LET status == Get(norm.activity_data, "status", PyNone)
    IN \/ status.t \in {"none", "dict"}
       \/ status.t = "list" /\ \A i \in 1..Len(status.v) : status.v[i].t = "dict"

\* funding is absent, null or a mapping.
FundingIsMapping ==
    Get(norm.activity_data, "funding", PyNone).t \in {"none", "dict"}

\* Every entry of the funding mapping is a mapping.
FundingEntriesOk ==
    LET funding == Get(norm.activity_data, "funding", PyNone)
    IN funding.t = "dict" =>
          \A i \in 1..Len(funding.v) : funding.v[i][2].t = "dict"

\* The columns cut to a declared length: <<kind, column, source field, L>>.
Declared ==
    {<<"publications", "isbn", "ISBN", 20>>,
     <<"publications", "year", "Year", 4>>,
     <<"grants", "currency_type", "Currency Type", 10>>}

Empty(value) == value \in {PyNone, PyStr(<<>>), PyInt(0)}

\* The amounts total_funding is resolved from, in the order of priority.
Amounts ==
    <<Get(FundingInfo(norm.activity_data), "fundedamount", PyNone),
      Get(NormFields, "Total Funding", PyNone),
      Get(NormFields, "Amount", PyNone)>>

\* C26: total_funding is the text of the first non-empty value among the
\* selected funding entry's fundedamount, fields["Total Funding"] and
\* fields["Amount"], null when all three are empty; with fundedamount 500 and
\* Total Funding 999 it is 500.
C26_FundingPrecedence ==
    (norm.pc = "returned" /\ norm.kind = "grants" /\ norm.entity # PyNone) =>
        /\ \A i \in 1..3 :
              (~Empty(Amounts[i]) /\ \A j \in 1..(i - 1) : Empty(Amounts[j])) =>
                  norm.entity.total_funding = Str(Amounts[i])
        /\ (\A i \in 1..3 : Empty(Amounts[i])) =>
              norm.entity.total_funding = PyNone
        /\ (Amounts[1] = PyInt(500) /\ Amounts[2] = PyInt(999)) =>
              norm.entity.total_funding = PyStr(<<"5", "0", "0">>)

C26_Witness ==
    /\ norm.pc = "returned"
    /\ norm.kind = "grants"
    /\ Get(norm.activity_data, "activityid", PyNone) = PyInt(1)
    /\ Get(norm.activity_data, "funding", PyNone) =
          PyDict(<<<<Digits(1), PyDict(<<<<"fundedamount", PyInt(500)>>>>)>>>>)
    /\ Get(NormFields, "Total Funding", PyNone) = PyInt(999)
    /\ Get(NormFields, "Amount", PyNone) = PyInt(42)
    /\ norm.entity # PyNone
    /\ norm.entity.total_funding = PyStr(<<"5", "0", "0">>)

\* The funding mapping of the activity and the text of the activity's id.
NormFunding == Get(norm.activity_data, "funding", PyNone)
NormOwnKey == Str(Get(norm.activity_data, "activityid", PyNone)).v

\* C27: of a funding mapping the entry under the activity's own id is used
\* when there is one, otherwise the first entry in iteration order; and
\* whatever the funding mapping holds, an activity with a non-empty grant
\* identifier is normalized to a Grant.
C27_FundingSelection ==
    (norm.pc = "returned" /\ norm.kind = "grants" /\ Accepted /\ StatusOk
        /\ NormFunding.t = "dict") =>
        /\ norm.entity # PyNone
        /\ (Has(NormFunding, NormOwnKey)
               /\ Get(NormFunding, NormOwnKey, PyNone).t = "dict") =>
              FundingInfo(norm.activity_data) = Get(NormFunding, NormOwnKey, PyNone)
        /\ (~Has(NormFunding, NormOwnKey) /\ NormFunding.v # <<>>
               /\ NormFunding.v[1][2].t = "dict") =>
              FundingInfo(norm.activity_data) = NormFunding.v[1][2]

\* The status of the activity a normalizer was called on.
NormStatus == Get(norm.activity_data, "status", PyNone)

\* The entity's status, term and status_year are those of the mapping.
StatusFrom(mapping) ==
    /\ norm.entity.status = Get(mapping, "status", PyNone)
    /\ norm.entity.term = Get(mapping, "term", PyNone)
    /\ norm.entity.status_year =
          IF Has(mapping, "year") THEN Str(Get(mapping, "year", PyNone))
          ELSE PyNone

\* C28: with status a non-empty sequence of mappings the entity's status,
\* term and status_year are those of the first element alone; with a single
\* mapping they are that mapping's; with status absent, null or empty all
\* three are null.
C28_StatusPrecedence ==
    (norm.pc = "returned" /\ Accepted /\ FundingIsMapping /\ FundingEntriesOk) =>
        /\ (NormStatus.t = "list" /\ NormStatus.v # <<>> /\ StatusOk) =>
              norm.entity # PyNone /\ StatusFrom(NormStatus.v[1])
        /\ NormStatus.t = "dict" =>
              norm.entity # PyNone /\ StatusFrom(NormStatus)
        /\ NormStatus \in {PyNone, PyList(<<>>), EmptyDict} =>
              /\ norm.entity # PyNone
              /\ norm.entity.status = PyNone
              /\ norm.entity.term = PyNone
              /\ norm.entity.status_year = PyNone

C28_Witness ==
    /\ norm.pc = "returned"
    /\ norm.kind = "grants"
    /\ NormStatus =
          PyList(<<StatusMapping(PyStr(<<"A">>), PyStr(<<"T">>), PyInt(2024)),
                   StatusMapping(PyStr(<<"B">>), PyStr(<<"U">>), PyInt(1999))>>)
    /\ norm.entity # PyNone
    /\ norm.entity.status = PyStr(<<"A">>)
    /\ norm.entity.term = PyStr(<<"T">>)
    /\ norm.entity.status_year = PyStr(<<"2", "0", "2", "4">>)

\* C29: when delete_stale_data fails while deleting the stale rows of one
\* kind, the stale rows of the other kind that it had deleted before stay
\* deleted; and the deleted counters equal the numbers of rows removed from
\* the store.
C29_StaleDeletionPerKind ==
    mainPc = "done" =>
        /\ (staleFailedIn = "grants" /\ Seen("publications") # {}) =>
              Deleted("publications") =
                  StaleRows(storeAtStale["publications"], Seen("publications"))
        /\ \A k \in Kinds : DeletedCount(k) = Cardinality(Deleted(k))

\* C30: two requests of one client with the same method, timestamp and
\* endpoint carry the same signed message, signature and Authorization
\* header, also when their query strings, and so their urls, differ.
C30_QueryIsNotSigned ==
    (/\ signing.calls # <<>>
     /\ \A i \in 1..2 : signing.calls[i].pc = "prepared"
     /\ signing.calls[1].endpoint = signing.calls[2].endpoint
     /\ signing.calls[1].timestamp = signing.calls[2].timestamp) =>
        /\ signing.calls[1].prepared.message = signing.calls[2].prepared.message
        /\ signing.calls[1].prepared.signature = signing.calls[2].prepared.signature
        /\ signing.calls[1].prepared.headers.Authorization =
              signing.calls[2].prepared.headers.Authorization

C30_Witness ==
    /\ signing.calls # <<>>
    /\ \A i \in 1..2 : signing.calls[i].pc = "prepared"
    /\ signing.calls[1].endpoint = signing.calls[2].endpoint
    /\ signing.calls[1].timestamp = signing.calls[2].timestamp
    /\ signing.calls[1].query_params # signing.calls[2].query_params
    /\ signing.calls[1].prepared.url # signing.calls[2].prepared.url
    /\ signing.calls[1].prepared.headers = signing.calls[2].prepared.headers
    /\ signing.calls[1].prepared.message =
          "GET\n\n\n2024-05-01 10:00:00\n/activities/-21"

\* The ids tracked for a kind during the pass.
Tracked(kind) ==
    IF kind = "publications" THEN tracker.seen_publications
    ELSE tracker.seen_grants

\* C31: a row whose activityid was tracked for its kind during the pass is
\* still in the store after the pass's reconciliation step; in particular
\* every row the pass has written (added or updated) is.
C31_TrackedRowsSurvive ==
    mainPc = "done" =>
        \A k \in Kinds : \A r \in storeAtStale[k] :
            (r.activityid \in Tracked(k) \/ r.title = "api") => r \in store[k]

C31_Witness ==
    /\ mainPc = "done"
    /\ staleOutcome = "committed"
    /\ storeAtStale["grants"] = {Row(1, 2, "old"), Row(2, 1, "api")}
    /\ store["grants"] = {Row(2, 1, "api")}
    /\ Tracked("grants") = {2}
    /\ Tracked("publications") = {1}
    /\ stats.grants_added = 1

\* Subjects get_user_ids returned that the batch cap kept out of the pass.
CappedOut ==
    {listed[i] : i \in (Len(userIds) + 1)..Len(listed)}

\* C32: when the batch cap keeps subjects out of the pass, the
\* reconciliation step deletes no persisted row of such a subject.
C32_RowsOutsideBatchSurvive ==
    (mainPc = "done" /\ batchSize # 0) =>
        \A k \in Kinds : \A r \in storeAtStale[k] :
            r.user_id \in CappedOut => r \in store[k]

\* C33: after a subject's commit every entity counted as added for the
\* subject is in the store, and the activityid of every entity counted as
\* updated is, also when a uniqueness violation was rolled back in between.
C33_RollbackKeepsEarlierEntities ==
    \A u \in Subjects :
        task[u].pc = "stats" =>
            \A e \in task[u].upserts :
                IF e[3] = "Added" THEN Row(e[2], u, "api") \in store[e[1]]
                ELSE HasId(store[e[1]], e[2])

\* Rows of a kind the pass has inserted: rows written by the pass whose
\* activityid was not persisted when the pass began.
Inserted(kind) ==
    {r \in storeAtStale[kind] :
        r.title = "api" /\ ~HasId(pass.store0[kind], r.activityid)}

\* Rows of a kind the pass has overwritten: rows written by the pass in the
\* place of a row persisted when the pass began.
Overwritten(kind) ==
    {r \in storeAtStale[kind] :
        r.title = "api" /\ HasId(pass.store0[kind], r.activityid)}

\* C34: at the end of a run the added counter of each kind is the number of
\* rows of the kind inserted during the pass and the updated counter the
\* number of persisted rows overwritten.
C34_CountersMatchStore ==
    (pass.mode = "long" /\ mainPc = "done") =>
        /\ stats.publications_added = Cardinality(Inserted("publications"))
        /\ stats.grants_added = Cardinality(Inserted("grants"))
        /\ stats.publications_updated = Cardinality(Overwritten("publications"))
        /\ stats.grants_updated = Cardinality(Overwritten("grants"))

\* C35: once the pool is joined, users_processed is the number of
\* dispatched subjects, whichever way each call of process_user returned.
C35_EveryExitCountsTheUser ==
    mainPc \in {"stale", "done"} => stats.users_processed = Len(userIds)

\* C36: a fetch sleeps only between two attempts: the number of its sleeps
\* is below the number of its attempts, so at most 2, whatever its last
\* attempt brought.
C36_BackoffOnlyBetweenAttempts ==
    req.pc = "returned" =>
        /\ Len(req.response.sleeps) < req.response.attempts
        /\ Len(req.response.sleeps) <= 2

\* C37: the call of process_user that finds both feeds empty returns at
\* once: it writes no row, tracks no activity id and touches no other call;
\* it adds the subject to seen_users and one to users_processed, and nothing
\* else of the tracker and the stats changes.
C37_NoActivitiesNoEffect ==
    [][\A u \in Subjects :
          (task[u].pc = "queued" /\ task'[u].pc = "done") =>
              /\ store' = store
              /\ tracker' = [tracker EXCEPT !.seen_users = @ \cup {u}]
              /\ stats' = [stats EXCEPT !.users_processed = @ + 1]
              /\ task'[u].staged = {} /\ task'[u].flushed = {}
              /\ \A v \in Subjects \ {u} : task'[v] = task[v]]_vars

C37_Witness ==
    /\ mainPc = "processing"
    /\ task[1].pc = "done"
    /\ task[2].pc = "queued"
    /\ store["publications"] = {Row(1, 1, "old")}
    /\ tracker = [EmptyTracker EXCEPT !.seen_users = {1}]
    /\ stats = [ZeroStats EXCEPT !.users_processed = 1]

\* C38: the seen sets never hold a null, zero or empty identifier and never
\* lose one; and the reconciliation step deletes no persisted row whose
\* activityid is null or zero, whatever was observed.
C38_FalsyIdsAreIgnored ==
    /\ [](/\ 0 \notin tracker.seen_users
          /\ 0 \notin tracker.seen_publications
          /\ 0 \notin tracker.seen_grants)
    /\ [][/\ tracker.seen_users \subseteq tracker'.seen_users
          /\ tracker.seen_publications \subseteq tracker'.seen_publications
          /\ tracker.seen_grants \subseteq tracker'.seen_grants]_vars
    /\ [](mainPc = "done" =>
            \A k \in Kinds : \A r \in storeAtStale[k] :
                r.activityid = 0 => r \in store[k])

C38_Witness ==
    /\ mainPc = "done"
    /\ staleOutcome = "committed"
    /\ tracker.seen_publications = {2}
    /\ tracker.seen_grants = {}
    /\ tracker.seen_users = {1}
    /\ storeAtStale["publications"] = {Row(0, 1, "old"), Row(1, 1, "old")}
    /\ store["publications"] = {Row(0, 1, "old")}

====
